---- MODULE Spec2Model ----
(***************************************************************************)
(* Medicart: the GUI uploader (src/main.go) and the legacy WebSocket device *)
(* bridge (src/unnamed/part_000).  Both launch lepu_cli, read its standard  *)
(* output line by line, parse every line and forward the events: the        *)
(* uploader by HTTP POST, the bridge over the client's WebSocket.           *)
(*                                                                          *)
(* Text is modelled as a sequence of one-character strings, so that the     *)
(* parsers are computed character by character as the Go code does.         *)
(***************************************************************************)
EXTENDS Integers, Sequences, FiniteSets, TLC

(***************************************************************************)
(* Bounds of the model.                                                     *)
(***************************************************************************)
\* goroutines runCLIAndSend the uploader may spawn in one run
MaxSessions == 2
\* lines the lepu_cli processes of one run write in total
MaxLines == 2
\* WebSocket connections the bridge serves in one run
MaxConns == 2

(***************************************************************************)
(* Go's strings and strconv, as far as the parsers use them.                *)
(***************************************************************************)
Digits == {"0", "1", "2", "3", "4", "5", "6", "7", "8", "9"}

DigitVal(c) ==
  CASE c = "0" -> 0 [] c = "1" -> 1 [] c = "2" -> 2 [] c = "3" -> 3
    [] c = "4" -> 4 [] c = "5" -> 5 [] c = "6" -> 6 [] c = "7" -> 7
    [] c = "8" -> 8 [] c = "9" -> 9

\* unicode.IsSpace for the characters a line of lepu_cli can hold
IsSpace(c) == c \in {" ", "\t", "\n", "\r", "\f"}

RECURSIVE TrimLeft(_)
TrimLeft(s) ==
  IF s # <<>> /\ IsSpace(Head(s)) THEN TrimLeft(Tail(s)) ELSE s

RECURSIVE TrimRight(_)
TrimRight(s) ==
  IF s # <<>> /\ IsSpace(s[Len(s)]) THEN TrimRight(SubSeq(s, 1, Len(s) - 1)) ELSE s

TrimSpace(s) == TrimRight(TrimLeft(s))

HasPrefix(s, p) == Len(s) >= Len(p) /\ SubSeq(s, 1, Len(p)) = p

TrimPrefix(s, p) == IF HasPrefix(s, p) THEN SubSeq(s, Len(p) + 1, Len(s)) ELSE s

\* strings.Contains(s, c) for a one-character c
Contains(s, c) == \E i \in 1..Len(s) : s[i] = c

\* index of the first c in s, 0 when there is none
RECURSIVE IndexFrom(_, _, _)
IndexFrom(s, c, i) ==
  IF i > Len(s) THEN 0 ELSE IF s[i] = c THEN i ELSE IndexFrom(s, c, i + 1)

Index(s, c) == IndexFrom(s, c, 1)

\* strings.Split(s, c): always at least one part
RECURSIVE Split(_, _)
Split(s, c) ==
  LET i == Index(s, c)
  IN  IF i = 0 THEN <<s>>
      ELSE <<SubSeq(s, 1, i - 1)>> \o Split(SubSeq(s, i + 1, Len(s)), c)

\* strings.SplitN(s, c, 2): cut at the first c only
SplitN2(s, c) ==
  LET i == Index(s, c)
  IN  IF i = 0 THEN <<s>> ELSE <<SubSeq(s, 1, i - 1), SubSeq(s, i + 1, Len(s))>>

\* strings.ReplaceAll(s, c, "")
RemoveAll(s, c) == SelectSeq(s, LAMBDA x : x # c)

UpperOf(c) ==
  CASE c = "a" -> "A" [] c = "b" -> "B" [] c = "c" -> "C" [] c = "d" -> "D"
    [] c = "e" -> "E" [] c = "f" -> "F" [] c = "g" -> "G" [] c = "h" -> "H"
    [] c = "i" -> "I" [] c = "j" -> "J" [] c = "k" -> "K" [] c = "l" -> "L"
    [] c = "m" -> "M" [] c = "n" -> "N" [] c = "o" -> "O" [] c = "p" -> "P"
    [] c = "q" -> "Q" [] c = "r" -> "R" [] c = "s" -> "S" [] c = "t" -> "T"
    [] c = "u" -> "U" [] c = "v" -> "V" [] c = "w" -> "W" [] c = "x" -> "X"
    [] c = "y" -> "Y" [] c = "z" -> "Z" [] OTHER -> c

ToUpper(s) == [i \in 1..Len(s) |-> UpperOf(s[i])]

\* largest value of Go's int in the 32-bit build
IntMax == 2147483647

\* the value of a run of digits, or -1 once it exceeds IntMax
RECURSIVE DigitsValue(_, _)
DigitsValue(s, acc) ==
  IF s = <<>> THEN acc
  ELSE LET d == DigitVal(Head(s))
       IN  IF acc > (IntMax - d) \div 10 THEN -1
           ELSE DigitsValue(Tail(s), acc * 10 + d)

\* the digits of IntMax + 1
MinIntDigits == <<"2", "1", "4", "7", "4", "8", "3", "6", "4", "8">>

RECURSIVE StripZeros(_)
StripZeros(s) == IF Len(s) > 1 /\ Head(s) = "0" THEN StripZeros(Tail(s)) ELSE s

\* strconv.Atoi: [val, ok]; on a syntax error val is 0, on a range error val is
\* the nearest int
Atoi(s) ==
  LET neg  == s # <<>> /\ Head(s) = "-"
      sign == s # <<>> /\ Head(s) \in {"+", "-"}
      body == IF sign THEN Tail(s) ELSE s
  IN  IF body = <<>> \/ \E i \in 1..Len(body) : body[i] \notin Digits
      THEN [val |-> 0, ok |-> FALSE]
      ELSE LET n == DigitsValue(body, 0)
           IN  IF n >= 0 THEN [val |-> IF neg THEN -n ELSE n, ok |-> TRUE]
               ELSE IF neg
               THEN [val |-> -IntMax - 1, ok |-> StripZeros(body) = MinIntDigits]
               ELSE [val |-> IntMax, ok |-> FALSE]

\* the value part of `v, _ := strconv.Atoi(s)`
AtoiVal(s) == Atoi(s).val

AllDigits(s) == \A i \in 1..Len(s) : s[i] \in Digits

HexDigits ==
  Digits \cup {"a", "b", "c", "d", "e", "f", "A", "B", "C", "D", "E", "F"}

\* the largest decimal exponent of a float64 (1.797...e308)
MaxExp10 == 308

\* a text without the zeros at its front, and without those at its end
RECURSIVE DropFrontZeros(_)
DropFrontZeros(s) == IF s # <<>> /\ Head(s) = "0" THEN DropFrontZeros(Tail(s)) ELSE s

RECURSIVE DropEndZeros(_)
DropEndZeros(s) ==
  IF s # <<>> /\ s[Len(s)] = "0" THEN DropEndZeros(SubSeq(s, 1, Len(s) - 1)) ELSE s

\* the first position of s that holds a character of set, 0 when there is none
IndexAny(s, set) ==
  IF \E i \in 1..Len(s) : s[i] \in set
  THEN CHOOSE i \in 1..Len(s) : s[i] \in set /\ \A j \in 1..(i - 1) : s[j] \notin set
  ELSE 0

FloatBad == [ok |-> FALSE, class |-> "none", neg |-> FALSE, base |-> 10,
             int |-> <<>>, frac |-> <<>>, exp |-> 0]

\* the value of the exponent text ex (sign and digits), kept within int
FloatExp(ex) ==
  LET edig == IF Head(ex) \in {"+", "-"} THEN Tail(ex) ELSE ex
      eabs == DigitsValue(edig, 0)
  IN  IF eabs < 0 THEN (IF Head(ex) = "-" THEN -IntMax ELSE IntMax)
      ELSE IF Head(ex) = "-" THEN -eabs ELSE eabs

\* the exponent text is a numeral: an optional sign and at least one digit
FloatExpOk(ex) ==
  LET edig == IF ex # <<>> /\ Head(ex) \in {"+", "-"} THEN Tail(ex) ELSE ex
  IN  edig # <<>> /\ AllDigits(edig)

\* the decimal value is beyond the largest float64.  lead: the digits before
\* the point without the zeros in front; tiny: those after the point (fp)
\* without the zeros in front; e: the exponent
FloatOver(lead, tiny, fp, e) ==
  /\ ~(lead = <<>> /\ tiny = <<>>)
  /\ LET \* the decimal exponent of the first digit that is not zero
         mag == IF lead # <<>> THEN Len(lead) - 1 ELSE -(Len(fp) - Len(tiny) + 1)
         sig == IF lead # <<>> THEN lead \o fp ELSE tiny
     IN  \/ e > MaxExp10 - mag
         \/ /\ e = MaxExp10 - mag
            /\ \/ DigitVal(sig[1]) >= 2
               \/ Len(sig) >= 2 /\ DigitVal(sig[2]) >= 8

\* the value of a well-formed number, or the range error
FloatValue(lead, tiny, fp, e, neg, base) ==
  IF base = 10 /\ FloatOver(lead, tiny, fp, e) THEN FloatBad
  ELSE [ok |-> TRUE, class |-> "finite", neg |-> neg, base |-> base,
        int |-> lead, frac |-> DropEndZeros(fp), exp |-> e]

\* ip and fp: the text before and after the point; hasExp and ex: whether
\* there is an exponent mark, and the text after it
FloatParts(ip, fp, hasExp, ex, neg, base, digits, need) ==
  IF \/ \E i \in 1..Len(ip) : ip[i] \notin digits
     \/ \E i \in 1..Len(fp) : fp[i] \notin digits
     \/ (ip = <<>> /\ fp = <<>>)
     \/ (~hasExp /\ need)
     \/ (hasExp /\ ~FloatExpOk(ex))
  THEN FloatBad
  ELSE FloatValue(DropFrontZeros(ip), DropFrontZeros(fp), fp,
                  IF hasExp THEN FloatExp(ex) ELSE 0, neg, base)

\* mant: the mantissa; dot: where its point is, 0 when it has none
FloatMantissa(mant, dot, hasExp, ex, neg, base, digits, need) ==
  FloatParts(IF dot = 0 THEN mant ELSE SubSeq(mant, 1, dot - 1),
             IF dot = 0 THEN <<>> ELSE SubSeq(mant, dot + 1, Len(mant)),
             hasExp, ex, neg, base, digits, need)

\* mant: the text before the exponent mark; ex: the text after it
FloatSplit(mant, hasExp, ex, neg, base, digits, need) ==
  FloatMantissa(mant, Index(mant, "."), hasExp, ex, neg, base, digits, need)

\* body: the text after the sign and the base prefix; at: where its exponent
\* mark is, 0 when it has none
FloatAt(body, at, neg, base, digits, need) ==
  FloatSplit(IF at = 0 THEN body ELSE SubSeq(body, 1, at - 1), at # 0,
             IF at = 0 THEN <<>> ELSE SubSeq(body, at + 1, Len(body)),
             neg, base, digits, need)

\* a mantissa and exponent: digits of the base with an optional point, then
\* the exponent after one of the marks; need says the exponent is required
FloatNumber(body, neg, base, digits, marks, need) ==
  FloatAt(body, IndexAny(body, marks), neg, base, digits, need)

\* strconv.ParseFloat(s, 64): [ok, class, neg, base, int, frac, exp].  The text
\* NaN, and Inf and Infinity with an optional sign, in any case of letters,
\* are accepted; so are decimal text (digits, an optional point, an optional
\* exponent) and hexadecimal text (0x, digits, an optional point, a p
\* exponent).  A decimal value beyond the largest float64 is a range error.
\* A finite value is kept as its digits: rounding to 53 bits, the range of
\* hexadecimal values and underscores between hexadecimal digits are not modelled.
ParseFloat(s) ==
  LET sign == s # <<>> /\ Head(s) \in {"+", "-"}
      neg  == s # <<>> /\ Head(s) = "-"
      body == IF sign THEN Tail(s) ELSE s
      up   == ToUpper(body)
  IN  IF ToUpper(s) = <<"N", "A", "N">>
      THEN [FloatBad EXCEPT !.ok = TRUE, !.class = "nan"]
      ELSE IF up \in {<<"I", "N", "F">>, <<"I", "N", "F", "I", "N", "I", "T", "Y">>}
      THEN [FloatBad EXCEPT !.ok = TRUE, !.class = "inf", !.neg = neg]
      ELSE IF Len(body) >= 2 /\ SubSeq(up, 1, 2) = <<"0", "X">>
      THEN FloatNumber(SubSeq(body, 3, Len(body)), neg, 16, HexDigits, {"p", "P"}, TRUE)
      ELSE FloatNumber(body, neg, 10, Digits, {"e", "E"}, FALSE)

(***************************************************************************)
(* Text constants of the line protocol.                                     *)
(***************************************************************************)
sDATA == <<"D", "A", "T", "A", ":">>
sSTATUS == <<"S", "T", "A", "T", "U", "S", ":">>
sPR == <<"P", "R">>
sSPO2 == <<"S", "P", "O", "2">>
sSYS == <<"S", "Y", "S">>
sDIA == <<"D", "I", "A">>
sMAP == <<"M", "A", "P">>
sIRR == <<"I", "R", "R">>
sTRUE == <<"T", "R", "U", "E">>
sTrue == <<"T", "r", "u", "e">>
sCUFF == sDATA \o <<"C", "U", "F", "F", "_", "P", "R", "E", "S", "S", "U", "R", "E", "=">>
sRESULT == sDATA \o <<"N", "I", "B", "P", "_", "R", "E", "S", "U", "L", "T", ":">>
sNIBPERR == sSTATUS \o <<"N", "I", "B", "P", "_", "E", "R", "R", "O", "R", "=">>
sNIBPEND == sSTATUS \o <<"N", "I", "B", "P", "_", "E", "N", "D">>
sGLU == sDATA \o <<"G", "L", "U", "=">>
sTEMP == sDATA \o <<"T", "E", "M", "P", "=">>

(***************************************************************************)
(* Go maps from text to text: a function on the keys present; a missing key *)
(* reads as the empty text.                                                 *)
(***************************************************************************)
EmptyMap == [k \in {} |-> <<>>]

MapPut(m, k, v) == [x \in (DOMAIN m) \cup {k} |-> IF x = k THEN v ELSE m[x]]

MapGet(m, k) == IF k \in DOMAIN m THEN m[k] ELSE <<>>

\* a parser's result (interface{}, error): data holds no or one event
NoEvent == [data |-> <<>>, err |-> FALSE]
ParseError == [data |-> <<>>, err |-> TRUE]
Event(e) == [data |-> <<e>>, err |-> FALSE]

\* a faulty fold: a key that is already in the map keeps its first value
RECURSIVE KVFoldFirstWins(_, _)
KVFoldFirstWins(pairs, result) ==
  IF pairs = <<>> THEN result
  ELSE LET parts == SplitN2(Head(pairs), "=")
       IN  KVFoldFirstWins(Tail(pairs),
                  IF Len(parts) = 2 /\ TrimSpace(parts[1]) \notin DOMAIN result
                  THEN MapPut(result, TrimSpace(parts[1]), TrimSpace(parts[2]))
                  ELSE result)

RECURSIVE KVFold(_, _)
KVFold(pairs, result) ==
  IF pairs = <<>> THEN result
  ELSE LET parts == SplitN2(Head(pairs), "=")
       IN  KVFold(Tail(pairs),
                  IF Len(parts) = 2
                  THEN MapPut(result, TrimSpace(parts[1]), TrimSpace(parts[2]))
                  ELSE result)

parseKV(input) == KVFold(Split(input, ","), EmptyMap)

(***************************************************************************)
(* The uploader's parsers (src/main.go).                                    *)
(***************************************************************************)
\* a heart-rate parser whose status event names its text "message"
parseHeartRateLineMessage(raw) ==
  LET line == TrimSpace(raw)
  IN  IF HasPrefix(line, sDATA)
      THEN LET kv == parseKV(TrimPrefix(line, sDATA))
           IN  Event([type |-> "data",
                      pr |-> AtoiVal(MapGet(kv, sPR)),
                      spo2 |-> AtoiVal(MapGet(kv, sSPO2))])
      ELSE IF HasPrefix(line, sSTATUS)
      THEN Event([type |-> "status", message |-> TrimPrefix(line, sSTATUS)])
      ELSE NoEvent

parseHeartRateLine(raw) ==
  LET line == TrimSpace(raw)
  IN  IF HasPrefix(line, sDATA)
      THEN LET kv == parseKV(TrimPrefix(line, sDATA))
           IN  Event([type |-> "data",
                      pr |-> AtoiVal(MapGet(kv, sPR)),
                      spo2 |-> AtoiVal(MapGet(kv, sSPO2))])
      ELSE IF HasPrefix(line, sSTATUS)
      THEN Event([type |-> "status", msg |-> TrimPrefix(line, sSTATUS)])
      ELSE NoEvent

\* a faulty part parser: KEY=VALUE only, a concatenated part is dropped
NIBPPartKeyValueOnly(resultMap, p) ==
  IF Contains(p, "=")
  THEN LET kv == SplitN2(p, "=")
       IN  IF Len(kv) = 2 THEN MapPut(resultMap, kv[1], kv[2]) ELSE resultMap
  ELSE resultMap

\* one part of an NIBP result: KEY=VALUE, or KEY followed by its digits
NIBPPart(resultMap, p) ==
  IF Contains(p, "=")
  THEN LET kv == SplitN2(p, "=")
       IN  IF Len(kv) = 2 THEN MapPut(resultMap, kv[1], kv[2]) ELSE resultMap
  ELSE IF HasPrefix(p, sMAP) THEN MapPut(resultMap, sMAP, TrimPrefix(p, sMAP))
  ELSE IF HasPrefix(p, sPR) THEN MapPut(resultMap, sPR, TrimPrefix(p, sPR))
  ELSE IF HasPrefix(p, sSYS) THEN MapPut(resultMap, sSYS, TrimPrefix(p, sSYS))
  ELSE IF HasPrefix(p, sDIA) THEN MapPut(resultMap, sDIA, TrimPrefix(p, sDIA))
  ELSE resultMap

RECURSIVE NIBPFold(_, _)
NIBPFold(parts, resultMap) ==
  IF parts = <<>> THEN resultMap
  ELSE NIBPFold(Tail(parts), NIBPPart(resultMap, Head(parts)))

\* a normalization that trims the ends of the line and does nothing else
NIBPNormalizeTrimOnly(line) == TrimSpace(line)

NIBPNormalize(line) == ToUpper(RemoveAll(RemoveAll(line, " "), "\r"))

parseNIBPLine(line) ==
  LET normalized == NIBPNormalize(line)
  IN  IF HasPrefix(normalized, sCUFF)
      THEN Event([type |-> "cuff_update",
                  cuff_pressure |-> AtoiVal(TrimPrefix(normalized, sCUFF))])
      ELSE IF HasPrefix(normalized, sRESULT)
      THEN LET resultMap == NIBPFold(Split(TrimPrefix(normalized, sRESULT), ","), EmptyMap)
           IN  Event([type |-> "result",
                      sys |-> AtoiVal(MapGet(resultMap, sSYS)),
                      dia |-> AtoiVal(MapGet(resultMap, sDIA)),
                      map |-> AtoiVal(MapGet(resultMap, sMAP)),
                      pr |-> AtoiVal(MapGet(resultMap, sPR)),
                      irr |-> (MapGet(resultMap, sIRR) = sTRUE)])
      ELSE IF HasPrefix(normalized, sNIBPERR)
      THEN Event([type |-> "error", code |-> AtoiVal(TrimPrefix(normalized, sNIBPERR))])
      ELSE IF HasPrefix(normalized, sNIBPEND)
      THEN Event([type |-> "status", msg |-> <<"N", "I", "B", "P", "_", "E", "N", "D">>])
      ELSE NoEvent

\* a glucose parser that takes every line for a reading
parseGlucoseLineAnyLine(raw) ==
  Event([type |-> "data", glu |-> AtoiVal(TrimPrefix(TrimSpace(raw), sGLU))])

parseGlucoseLine(raw) ==
  LET line == TrimSpace(raw)
  IN  IF HasPrefix(line, sGLU)
      THEN Event([type |-> "data", glu |-> AtoiVal(TrimPrefix(line, sGLU))])
      ELSE NoEvent

\* what parseTemperatureLine returns for the result val of ParseFloat
TemperatureEvent(val) ==
  IF ~val.ok THEN ParseError
  ELSE Event([type |-> "data",
              temp |-> [class |-> val.class, neg |-> val.neg, base |-> val.base,
                        int |-> val.int, frac |-> val.frac, exp |-> val.exp]])

parseTemperatureLine(raw) ==
  LET line == TrimSpace(raw)
  IN  IF HasPrefix(line, sTEMP)
      THEN TemperatureEvent(ParseFloat(TrimPrefix(line, sTEMP)))
      ELSE NoEvent

(***************************************************************************)
(* The bridge's parsers (src/unnamed/part_000).  Heart rate, glucose and    *)
(* temperature read as the uploader's; the NIBP parser is the older one.    *)
(***************************************************************************)
bridgeParseNIBPLine(raw) ==
  LET line == TrimSpace(raw)
  IN  IF HasPrefix(line, sCUFF)
      THEN Event([type |-> "cuff_update",
                  cuff_pressure |-> AtoiVal(TrimPrefix(line, sCUFF))])
      ELSE IF HasPrefix(line, sRESULT)
      THEN LET kv == parseKV(TrimPrefix(line, sRESULT))
           IN  Event([type |-> "result",
                      sys |-> AtoiVal(MapGet(kv, sSYS)),
                      dia |-> AtoiVal(MapGet(kv, sDIA)),
                      map |-> AtoiVal(MapGet(kv, sMAP)),
                      pr |-> AtoiVal(MapGet(kv, sPR)),
                      irr |-> (MapGet(kv, sIRR) = sTrue)])
      ELSE IF HasPrefix(line, sNIBPERR)
      THEN Event([type |-> "error", code |-> AtoiVal(TrimPrefix(line, sNIBPERR))])
      ELSE NoEvent

\* the device kinds, and the parser each Start button and each endpoint passes
Kinds == {"HeartRate", "NIBP", "Glucose", "Temperature"}

\* the kinds the uploader's sessions of the model are started with, and the
\* endpoints the bridge's connections of the model are made to
UploaderKinds == {"Temperature"}
BridgeKinds == {"HeartRate", "Temperature"}

UploaderParser(kind, line) ==
  CASE kind = "HeartRate" -> parseHeartRateLine(line)
    [] kind = "NIBP" -> parseNIBPLine(line)
    [] kind = "Glucose" -> parseGlucoseLine(line)
    [] kind = "Temperature" -> parseTemperatureLine(line)

BridgeParser(kind, line) ==
  CASE kind = "HeartRate" -> parseHeartRateLine(line)
    [] kind = "NIBP" -> bridgeParseNIBPLine(line)
    [] kind = "Glucose" -> parseGlucoseLine(line)
    [] kind = "Temperature" -> parseTemperatureLine(line)

(***************************************************************************)
(* Lines a lepu_cli process may write, by the mode it was started in.       *)
(***************************************************************************)
LineTable ==
  << <<"D", "A", "T", "A", ":", "P", "R", "=", "8", "0", ",", "S", "P", "O", "2", "=", "9", "7">>,
     <<"S", "T", "A", "T", "U", "S", ":", "P", "R", "O", "B", "E", "_", "O", "F", "F">>,
     <<"g", "a", "r", "b", "a", "g", "e">>,
     <<"D", "A", "T", "A", ":", "T", "E", "M", "P", "=", "3", "6", ".", "5">>,
     <<"D", "A", "T", "A", ":", "T", "E", "M", "P", "=", "a", "b", "c">>,
     <<"D", "A", "T", "A", ":", "G", "L", "U", "=", "1", "0", "5">>,
     <<"D", "A", "T", "A", ":", "C", "U", "F", "F", "_", "P", "R", "E", "S", "S", "U", "R", "E", "=", "1", "2", "0">>,
     <<"S", "T", "A", "T", "U", "S", ":", "N", "I", "B", "P", "_", "E", "N", "D">> >>

LinesOf(kind) ==
  CASE kind = "HeartRate" -> {1, 2, 3}
    [] kind = "Temperature" -> {4, 5, 3}
    [] kind = "Glucose" -> {6, 3}
    [] kind = "NIBP" -> {7, 8}

\* what the parser of each kind returns for each line of LineTable
UploaderParsed ==
  [kind \in Kinds |-> [l \in 1..Len(LineTable) |-> UploaderParser(kind, LineTable[l])]]

BridgeParsed ==
  [kind \in Kinds |-> [l \in 1..Len(LineTable) |-> BridgeParser(kind, LineTable[l])]]

(***************************************************************************)
(* State.                                                                   *)
(***************************************************************************)
VARIABLES
  program,           \* which binary runs: "uploader" or "bridge"; "parsers": a parser alone
  currentCmd,        \* uploader: the global currentCmd, 0 is nil, else the session that set it
  cancelFunc,        \* uploader: the global cancelFunc, 0 is nil, else the session whose context it cancels
  stopEnabled,       \* uploader: whether the Stop button is enabled
  pendingDisable,    \* uploader: stopBtn.Disable() calls queued by fyne.Do, not yet run
  uiMsg,             \* uploader: the last message a button handler passed to log()
  written,           \* lines the lepu_cli processes have written so far
  sess,              \* uploader: the runCLIAndSend goroutines and their processes
  conn,              \* bridge: the runCLIAndStream handlers, their readers and processes
  parseArg,          \* parsers: the line handed to a parser, and what it was made of
  parseRet,          \* parsers: what the parser returned for it
  files,             \* web server: the files under data/, each with its records
  feedConn,          \* web server: the global feedConn, 0 is nil, else the feed connection
  feed,              \* web server: the handleFeedWS handlers and their connections
  streams,           \* web server: the global streams, key to set of subscribers
  sub,               \* web server: the handleStreamWS handlers and their connections
  answers,           \* web server: the responses to the feed control requests so far
  relayed,           \* web server: the frames handed to broadcastFrame so far
  wsConn,            \* uploader: the global wsConn, 0 is nil, else the connection
  wsCancel,          \* uploader: the global wsCancel, 0 is nil, else the connection whose context it cancels
  wsock,             \* uploader: the feed-control connections and their reader goroutines
  wsStatus,          \* uploader: the text of the wsStatus label
  wsPending          \* uploader: wsStatus.SetText calls queued by fyne.Do, not yet run

vars == <<program, currentCmd, cancelFunc, stopEnabled, pendingDisable, uiMsg, written,
          sess, conn, parseArg, parseRet,
          files, feedConn, feed, streams, sub, answers, relayed, wsConn, wsCancel, wsock,
          wsStatus, wsPending>>

parserVars == <<parseArg, parseRet>>

uploaderVars == <<currentCmd, cancelFunc, stopEnabled, pendingDisable, uiMsg, sess>>

serverVars == <<files, feedConn, feed, streams, sub, answers, relayed>>

wsVars == <<wsConn, wsCancel, wsock, wsStatus, wsPending>>

Sessions == 1..MaxSessions

\* texts the user may have typed into the URL, clinic and patient entries when
\* a Start button is pressed
DefaultURL == "http://localhost:8080/api/data"
UrlTexts == {"", DefaultURL}
ClinicTexts == {"", "ClinicA"}
PatientTexts == {"", "Alice"}

\* a goroutine that was never spawned.  pending: lines its process has written
\* that the scanner has not returned yet; lines: the lines the scanner
\* returned; posts: the events handed to sendData; inflight: the event of the
\* POST in progress; msg: the last message the goroutine passed to log();
\* launched, waits, teardowns, finishes: whether cmd.Start succeeded, and how
\* often cmd.Wait, the deferred clearing and onFinish ran; sendErrors: how
\* often sendData returned an error.
IdleSession ==
  [pc |-> "idle", kind |-> "HeartRate", targetURL |-> "", clinicName |-> "",
   patientName |-> "", cancelled |-> FALSE, proc |-> "none", exit |-> "none",
   pending |-> 0, lines |-> <<>>, inflight |-> <<>>, posts |-> <<>>, msg |-> "",
   sendErrors |-> 0, launched |-> FALSE, waits |-> 0, teardowns |-> 0,
   finishes |-> 0]

InitUploader ==
  /\ currentCmd = 0
  /\ cancelFunc = 0
  /\ stopEnabled = FALSE
  /\ pendingDisable = 0
  /\ uiMsg = ""
  /\ written = 0
  /\ sess = [s \in Sessions |-> IdleSession]

(***************************************************************************)
(* The uploader's button handlers (UI thread).  A handler reads the three   *)
(* entries once, when the button is pressed; their texts are its inputs.    *)
(***************************************************************************)
\* the guard of startProcess: a process is taken to run iff currentCmd is set
AlreadyRunning == currentCmd # 0

msgAlreadyRunning == "Error: A process is already running. Stop it first."

\* a faulty startProcess: the refused request also cancels the running session
StartRejectedCancels ==
  /\ program = "uploader"
  /\ AlreadyRunning
  /\ uiMsg' = msgAlreadyRunning
  /\ sess' = [sess EXCEPT ![currentCmd].cancelled = TRUE]
  /\ UNCHANGED <<conn, program, serverVars, wsVars, parserVars, currentCmd, cancelFunc, stopEnabled, pendingDisable, written>>

\* startProcess refuses: currentCmd is set
StartRejected ==
  /\ program = "uploader"
  /\ AlreadyRunning
  /\ uiMsg' = msgAlreadyRunning
  /\ UNCHANGED <<conn, program, serverVars, wsVars, parserVars, currentCmd, cancelFunc, stopEnabled, pendingDisable, written, sess>>

\* a faulty startProcess: it enables the Stop button before it looks at the
\* entries
StartInvalidEnablesStop(url, clinic, patient) ==
  /\ program = "uploader"
  /\ ~AlreadyRunning
  /\ url = "" \/ clinic = "" \/ patient = ""
  /\ stopEnabled' = TRUE
  /\ uiMsg' = IF url = "" THEN "Error: Please enter a Web Server URL"
              ELSE IF clinic = "" THEN "Error: Please enter a Clinic Name"
              ELSE "Error: Please enter a Patient Name"
  /\ UNCHANGED <<conn, program, serverVars, wsVars, parserVars, currentCmd, cancelFunc, pendingDisable, written, sess>>

\* startProcess refuses: an entry is empty
StartInvalid(url, clinic, patient) ==
  /\ program = "uploader"
  /\ ~AlreadyRunning
  /\ url = "" \/ clinic = "" \/ patient = ""
  /\ uiMsg' = IF url = "" THEN "Error: Please enter a Web Server URL"
              ELSE IF clinic = "" THEN "Error: Please enter a Clinic Name"
              ELSE "Error: Please enter a Patient Name"
  /\ UNCHANGED <<conn, program, serverVars, wsVars, parserVars, currentCmd, cancelFunc, stopEnabled, pendingDisable, written, sess>>

\* startProcess accepts: the Stop button is enabled and the goroutine is spawned
StartAccepted(kind, url, clinic, patient) ==
  /\ program = "uploader"
  /\ ~AlreadyRunning
  /\ url # "" /\ clinic # "" /\ patient # ""
  /\ \E s \in Sessions :
       /\ sess[s].pc = "idle"
       /\ \A t \in Sessions : t < s => sess[t].pc # "idle"
       /\ sess' = [sess EXCEPT ![s] =
                     [@ EXCEPT !.pc = "created", !.kind = kind, !.targetURL = url,
                               !.clinicName = clinic, !.patientName = patient]]
  /\ stopEnabled' = TRUE
  /\ UNCHANGED <<conn, program, serverVars, wsVars, parserVars, currentCmd, cancelFunc, pendingDisable, uiMsg, written>>

\* what the Stop handler does to the contexts: it cancels the one cancelFunc holds
StopCancel(ss) == [ss EXCEPT ![cancelFunc].cancelled = TRUE]

\* the Stop button (it can be pressed only while enabled)
Stop ==
  /\ program = "uploader"
  /\ stopEnabled
  /\ cancelFunc # 0
  /\ sess' = StopCancel(sess)
  /\ uiMsg' = "Stopping process..."
  /\ UNCHANGED <<conn, program, serverVars, wsVars, parserVars, currentCmd, cancelFunc, stopEnabled, pendingDisable, written>>

\* the UI thread runs a queued stopBtn.Disable()
RunDisable ==
  /\ program = "uploader"
  /\ pendingDisable > 0
  /\ pendingDisable' = pendingDisable - 1
  /\ stopEnabled' = FALSE
  /\ UNCHANGED <<conn, program, serverVars, wsVars, parserVars, currentCmd, cancelFunc, uiMsg, written, sess>>

(***************************************************************************)
(* runCLIAndSend: the goroutine of one uploader session.                    *)
(* pc: idle, created, ctxSet, cmdSet, scan, post, wait, deferClear,         *)
(* deferFinish, done.                                                       *)
(***************************************************************************)
\* context.WithCancel, then cancelFunc = cancel under the mutex
SetCancel(s) ==
  /\ program = "uploader"
  /\ sess[s].pc = "created"
  /\ cancelFunc' = s
  /\ sess' = [sess EXCEPT ![s].pc = "ctxSet"]
  /\ UNCHANGED <<conn, program, serverVars, wsVars, parserVars, currentCmd, stopEnabled, pendingDisable, uiMsg, written>>

\* log "Starting ...", exec.CommandContext, then currentCmd = cmd under the mutex
SetCmd(s) ==
  /\ program = "uploader"
  /\ sess[s].pc = "ctxSet"
  /\ currentCmd' = s
  /\ sess' = [sess EXCEPT ![s].pc = "cmdSet", ![s].msg = "Starting"]
  /\ UNCHANGED <<conn, program, serverVars, wsVars, parserVars, cancelFunc, stopEnabled, pendingDisable, uiMsg, written>>

\* cmd.StdoutPipe() fails: logged, return
PipeFails(s) ==
  /\ program = "uploader"
  /\ sess[s].pc = "cmdSet"
  /\ sess' = [sess EXCEPT ![s].pc = "deferClear", ![s].msg = "Error creating stdout pipe"]
  /\ UNCHANGED <<conn, program, serverVars, wsVars, parserVars, currentCmd, cancelFunc, stopEnabled, pendingDisable, uiMsg, written>>

\* a failed cmd.Start() that returns without logging anything
StartFailsSilent(s) ==
  /\ program = "uploader"
  /\ sess[s].pc = "cmdSet"
  /\ sess' = [sess EXCEPT ![s].pc = "deferClear"]
  /\ UNCHANGED <<conn, program, serverVars, wsVars, parserVars, currentCmd, cancelFunc, stopEnabled, pendingDisable, uiMsg, written>>

\* cmd.Start() fails (no executable, the OS refuses, or the context is already
\* cancelled): logged, return
StartFails(s) ==
  /\ program = "uploader"
  /\ sess[s].pc = "cmdSet"
  /\ sess' = [sess EXCEPT ![s].pc = "deferClear", ![s].msg = "Error starting process"]
  /\ UNCHANGED <<conn, program, serverVars, wsVars, parserVars, currentCmd, cancelFunc, stopEnabled, pendingDisable, uiMsg, written>>

\* cmd.Start() succeeds; it refuses a context that is already cancelled
StartSucceeds(s) ==
  /\ program = "uploader"
  /\ sess[s].pc = "cmdSet"
  /\ ~sess[s].cancelled
  /\ sess' = [sess EXCEPT ![s].pc = "scan", ![s].proc = "running", ![s].launched = TRUE]
  /\ UNCHANGED <<conn, program, serverVars, wsVars, parserVars, currentCmd, cancelFunc, stopEnabled, pendingDisable, uiMsg, written>>

\* data with patient_name and clinic_name set, as the loop does before sending
Inject(data, patientName, clinicName) ==
  [k \in (DOMAIN data) \cup {"patient_name", "clinic_name"} |->
     IF k = "patient_name" THEN patientName
     ELSE IF k = "clinic_name" THEN clinicName
     ELSE data[k]]

\* a faulty read loop: the event of a line is logged but not handed to sendData
LoopBodyDropsEvent(r, l) ==
  LET res == UploaderParsed[r.kind][l]
  IN  IF res.err \/ res.data = <<>>
      THEN [r EXCEPT !.pending = @ - 1, !.lines = Append(@, l)]
      ELSE [r EXCEPT !.pending = @ - 1, !.lines = Append(@, l), !.msg = "Sending data"]

\* a faulty read loop: the names are not the ones passed to the goroutine but
\* those of the session started last, as if kept in variables all sessions share
LoopBodySharedNames(r, l) ==
  LET res == UploaderParsed[r.kind][l]
      last == CHOOSE s \in Sessions :
                /\ sess[s].pc # "idle"
                /\ \A t \in Sessions : t > s => sess[t].pc = "idle"
  IN  IF res.err \/ res.data = <<>>
      THEN [r EXCEPT !.pending = @ - 1, !.lines = Append(@, l)]
      ELSE LET data == Inject(res.data[1], sess[last].patientName, sess[last].clinicName)
           IN  [r EXCEPT !.pending = @ - 1, !.lines = Append(@, l),
                         !.pc = "post", !.inflight = <<data>>,
                         !.posts = Append(@, data), !.msg = "Sending data"]

\* the body of the read loop for line l of LineTable: parse; on an error or no
\* event go on to the next line, else inject the names, log and start the POST
LoopBody(r, l) ==
  LET res == UploaderParsed[r.kind][l]
  IN  IF res.err \/ res.data = <<>>
      THEN [r EXCEPT !.pending = @ - 1, !.lines = Append(@, l)]
      ELSE LET data == Inject(res.data[1], r.patientName, r.clinicName)
           IN  [r EXCEPT !.pending = @ - 1, !.lines = Append(@, l),
                         !.pc = "post", !.inflight = <<data>>,
                         !.posts = Append(@, data), !.msg = "Sending data"]

\* scanner.Scan() returns the next line of the pipe; its text is l
ScanLine(s, l) ==
  /\ program = "uploader"
  /\ sess[s].pc = "scan"
  /\ sess[s].pending > 0
  /\ l \in LinesOf(sess[s].kind)
  /\ sess' = [sess EXCEPT ![s] = LoopBody(@, l)]
  /\ UNCHANGED <<conn, program, serverVars, wsVars, parserVars, currentCmd, cancelFunc, stopEnabled, pendingDisable, uiMsg, written>>

\* scanner.Scan() returns false: the pipe is drained and its write end closed
ScanEOF(s) ==
  /\ program = "uploader"
  /\ sess[s].pc = "scan"
  /\ sess[s].pending = 0
  /\ sess[s].proc = "exited"
  /\ sess' = [sess EXCEPT ![s].pc = "wait"]
  /\ UNCHANGED <<conn, program, serverVars, wsVars, parserVars, currentCmd, cancelFunc, stopEnabled, pendingDisable, uiMsg, written>>

\* sendData returned nil
PostOk(s) ==
  /\ program = "uploader"
  /\ sess[s].pc = "post"
  /\ sess' = [sess EXCEPT ![s].pc = "scan", ![s].inflight = <<>>]
  /\ UNCHANGED <<conn, program, serverVars, wsVars, parserVars, currentCmd, cancelFunc, stopEnabled, pendingDisable, uiMsg, written>>

\* a faulty read loop: a failed POST is logged and the session is cancelled
AfterSendErrorCancels(r) ==
  [r EXCEPT !.pc = "scan", !.inflight = <<>>, !.msg = "Error sending data",
            !.sendErrors = @ + 1, !.cancelled = TRUE]

\* the read loop after sendData returned an error: log it, next line
AfterSendError(r) ==
  [r EXCEPT !.pc = "scan", !.inflight = <<>>, !.msg = "Error sending data",
            !.sendErrors = @ + 1]

\* sendData returned an error (network failure or status >= 400)
PostFails(s) ==
  /\ program = "uploader"
  /\ sess[s].pc = "post"
  /\ sess' = [sess EXCEPT ![s] = AfterSendError(@)]
  /\ UNCHANGED <<conn, program, serverVars, wsVars, parserVars, currentCmd, cancelFunc, stopEnabled, pendingDisable, uiMsg, written>>

\* what a call of sendData meets: an event json.Marshal cannot encode; an
\* http.Post that returns an error (no connection, too many redirects, ...);
\* a response, with the status code of the last response http.Post returns
SendOutcomes == {"unencodable", "unreachable", "response"}

\* sendData: TRUE when it returns an error, FALSE when it returns nil
sendData(what, status) ==
  IF what = "unencodable" THEN TRUE
  ELSE IF what = "unreachable" THEN TRUE
  ELSE status >= 400

msgSuccess == "Process finished successfully."
msgStopped == "Process stopped by user."
msgError == "Process finished with error"

\* the messages cmd.Wait()'s result can lead to, given how the process ended
\* and whether the context is cancelled.  Wait returns an error for a killed
\* process and for a non-zero status; for status zero with a cancelled context
\* it returns nil or the context's error, as the kill attempt went.
WaitOutcomes(exit, cancelled) ==
  IF exit = "zero"
  THEN IF cancelled THEN {msgSuccess, msgStopped} ELSE {msgSuccess}
  ELSE IF cancelled THEN {msgStopped} ELSE {msgError}

\* cmd.Wait() returns once the process has exited; the outcome is logged
Wait(s) ==
  /\ program = "uploader"
  /\ sess[s].pc = "wait"
  /\ sess[s].proc = "exited"
  /\ \E m \in WaitOutcomes(sess[s].exit, sess[s].cancelled) :
       sess' = [sess EXCEPT ![s].pc = "deferClear", ![s].proc = "reaped",
                            ![s].waits = @ + 1, ![s].msg = m]
  /\ UNCHANGED <<conn, program, serverVars, wsVars, parserVars, currentCmd, cancelFunc, stopEnabled, pendingDisable, uiMsg, written>>

\* a faulty deferred func: it clears currentCmd and leaves cancelFunc set
DeferClearKeepsHandle(s) ==
  /\ program = "uploader"
  /\ sess[s].pc = "deferClear"
  /\ currentCmd' = 0
  /\ sess' = [sess EXCEPT ![s].pc = "deferFinish", ![s].teardowns = @ + 1]
  /\ UNCHANGED <<conn, program, serverVars, wsVars, parserVars, cancelFunc, stopEnabled, pendingDisable, uiMsg, written>>

\* the deferred func: currentCmd = nil, cancelFunc = nil under the mutex
DeferClear(s) ==
  /\ program = "uploader"
  /\ sess[s].pc = "deferClear"
  /\ currentCmd' = 0
  /\ cancelFunc' = 0
  /\ sess' = [sess EXCEPT ![s].pc = "deferFinish", ![s].teardowns = @ + 1]
  /\ UNCHANGED <<conn, program, serverVars, wsVars, parserVars, stopEnabled, pendingDisable, uiMsg, written>>

\* the goroutine has returned: its locals, its context and its pipe are gone;
\* what stays is how often each part of the teardown ran
Returned(r) ==
  [IdleSession EXCEPT !.pc = "done", !.proc = r.proc, !.launched = r.launched,
                      !.waits = r.waits, !.teardowns = r.teardowns,
                      !.finishes = r.finishes + 1]

\* the deferred onFinish(): fyne.Do queues stopBtn.Disable()
DeferFinish(s) ==
  /\ program = "uploader"
  /\ sess[s].pc = "deferFinish"
  /\ pendingDisable' = pendingDisable + 1
  /\ sess' = [sess EXCEPT ![s] = Returned(@)]
  /\ UNCHANGED <<conn, program, serverVars, wsVars, parserVars, currentCmd, cancelFunc, stopEnabled, uiMsg, written>>

(***************************************************************************)
(* The lepu_cli process of an uploader session, and os/exec's watcher of    *)
(* the session's context.                                                   *)
(***************************************************************************)
\* the process writes a line to its standard output
Emit(s) ==
  /\ program = "uploader"
  /\ sess[s].proc = "running"
  /\ written < MaxLines
  /\ written' = written + 1
  /\ sess' = [sess EXCEPT ![s].pending = @ + 1]
  /\ UNCHANGED <<conn, program, serverVars, wsVars, parserVars, currentCmd, cancelFunc, stopEnabled, pendingDisable, uiMsg>>

\* the process exits by itself, with status zero or not
Exit(s, how) ==
  /\ program = "uploader"
  /\ sess[s].proc = "running"
  /\ sess' = [sess EXCEPT ![s].proc = "exited", ![s].exit = how]
  /\ UNCHANGED <<conn, program, serverVars, wsVars, parserVars, currentCmd, cancelFunc, stopEnabled, pendingDisable, uiMsg, written>>

\* a faulty watcher: it kills, and reports as killed, a process that has exited
KillExited(s) ==
  /\ program = "uploader"
  /\ sess[s].proc \in {"running", "exited"}
  /\ sess[s].cancelled
  /\ sess' = [sess EXCEPT ![s].proc = "exited", ![s].exit = "killed"]
  /\ UNCHANGED <<conn, program, serverVars, wsVars, parserVars, currentCmd, cancelFunc, stopEnabled, pendingDisable, uiMsg, written>>

\* exec.CommandContext: once the context is done the process is killed
Kill(s) ==
  /\ program = "uploader"
  /\ sess[s].proc = "running"
  /\ sess[s].cancelled
  /\ sess' = [sess EXCEPT ![s].proc = "exited", ![s].exit = "killed"]
  /\ UNCHANGED <<conn, program, serverVars, wsVars, parserVars, currentCmd, cancelFunc, stopEnabled, pendingDisable, uiMsg, written>>

\* the button handlers and the UI thread
UINext ==
  \/ StartRejected
  \/ \E url \in UrlTexts, clinic \in ClinicTexts, patient \in PatientTexts :
       \/ StartInvalid(url, clinic, patient)
       \/ \E kind \in UploaderKinds : StartAccepted(kind, url, clinic, patient)
  \/ Stop
  \/ RunDisable

\* the steps of the goroutine of session s
GoroutineStep(s) ==
  \/ SetCancel(s) \/ SetCmd(s) \/ PipeFails(s) \/ StartFails(s) \/ StartSucceeds(s)
  \/ \E l \in 1..Len(LineTable) : ScanLine(s, l)
  \/ ScanEOF(s) \/ PostOk(s) \/ PostFails(s)
  \/ Wait(s) \/ DeferClear(s) \/ DeferFinish(s)

\* the steps of session s: its goroutine, its process and the process's watcher
SessionNext(s) ==
  \/ GoroutineStep(s)
  \/ Emit(s)
  \/ \E how \in {"zero", "nonzero"} : Exit(s, how)
  \/ Kill(s)

UploaderNext == UINext \/ \E s \in Sessions : SessionNext(s)

(***************************************************************************)
(* The bridge: runCLIAndStream, the handler of one WebSocket connection,    *)
(* its disconnect-detecting goroutine, the client and the lepu_cli process. *)
(* pc: idle, upgraded, scan, write, wait, return, returned.                 *)
(* reader: none, reading, stopped.                                          *)
(***************************************************************************)
Conns == 1..MaxConns

\* a connection no request was made on.  open: the client has not closed its
\* end; closed: the handler has closed the connection; posts: the events
\* handed to ws.WriteJSON; writeFailed: the read loop was left by the break;
\* errorsSent: error messages handed to ws.WriteJSON; the rest as for the
\* uploader's sessions.
IdleConn ==
  [pc |-> "idle", kind |-> "HeartRate", reader |-> "none", open |-> TRUE,
   closed |-> FALSE, cancelled |-> FALSE, proc |-> "none", exit |-> "none",
   pending |-> 0, lines |-> <<>>, inflight |-> <<>>, posts |-> <<>>,
   writeFailed |-> FALSE, launched |-> FALSE, waits |-> 0, errorsSent |-> 0]

InitBridge == conn = [c \in Conns |-> IdleConn]

BridgeUnchanged == UNCHANGED <<program, serverVars, wsVars, parserVars, uploaderVars, written>>

\* a client connects to the endpoint of a kind: Upgrade succeeds, ws.Close and
\* cancel are deferred, the context is made and the reader goroutine started
Upgrade(c, kind) ==
  /\ program = "bridge"
  /\ conn[c].pc = "idle"
  /\ conn' = [conn EXCEPT ![c].pc = "upgraded", ![c].kind = kind, ![c].reader = "reading"]
  /\ BridgeUnchanged

\* Upgrade fails: logged, return; there is no connection and no session
UpgradeFails(c) ==
  /\ program = "bridge"
  /\ conn[c].pc = "idle"
  /\ conn' = [conn EXCEPT ![c].pc = "returned", ![c].open = FALSE]
  /\ BridgeUnchanged

\* the client closes the connection or goes away
ClientCloses(c) ==
  /\ program = "bridge"
  /\ conn[c].pc \notin {"idle", "returned"}
  /\ conn[c].open
  /\ conn' = [conn EXCEPT ![c].open = FALSE]
  /\ BridgeUnchanged

\* a faulty reader goroutine: on an error it returns without calling cancel()
ReaderOnErrorNoCancel(r) == [r EXCEPT !.reader = "stopped"]

\* what the reader goroutine does when ws.ReadMessage returns an error
ReaderOnError(r) == [r EXCEPT !.cancelled = TRUE, !.reader = "stopped"]

\* ws.ReadMessage fails because the connection is closed, by the client or by
\* the handler's deferred ws.Close
ReadClosed(c) ==
  /\ program = "bridge"
  /\ conn[c].reader = "reading"
  /\ ~conn[c].open \/ conn[c].closed
  /\ conn' = [conn EXCEPT ![c] = ReaderOnError(@)]
  /\ BridgeUnchanged

\* ws.ReadMessage fails on a connection that is still open (a bad frame, a
\* network error)
ReadError(c) ==
  /\ program = "bridge"
  /\ conn[c].reader = "reading"
  /\ conn[c].open /\ ~conn[c].closed
  /\ conn' = [conn EXCEPT ![c] = ReaderOnError(@)]
  /\ BridgeUnchanged

\* cmd.StdoutPipe() fails: an error message is written, return
BPipeFails(c) ==
  /\ program = "bridge"
  /\ conn[c].pc = "upgraded"
  /\ conn' = [conn EXCEPT ![c].pc = "return", ![c].errorsSent = @ + 1]
  /\ BridgeUnchanged

\* cmd.Start() fails (no executable, the OS refuses, or the context is already
\* cancelled): an error message is written, return
BStartFails(c) ==
  /\ program = "bridge"
  /\ conn[c].pc = "upgraded"
  /\ conn' = [conn EXCEPT ![c].pc = "return", ![c].errorsSent = @ + 1]
  /\ BridgeUnchanged

\* cmd.Start() succeeds; it refuses a context that is already cancelled
BStartSucceeds(c) ==
  /\ program = "bridge"
  /\ conn[c].pc = "upgraded"
  /\ ~conn[c].cancelled
  /\ conn' = [conn EXCEPT ![c].pc = "scan", ![c].proc = "running", ![c].launched = TRUE]
  /\ BridgeUnchanged

\* a faulty read loop: a parser error is treated like a failed write
BLoopBodyBreaksOnError(r, l) ==
  LET res == BridgeParsed[r.kind][l]
  IN  IF res.err
      THEN [r EXCEPT !.pending = @ - 1, !.lines = Append(@, l), !.pc = "wait"]
      ELSE IF res.data = <<>>
      THEN [r EXCEPT !.pending = @ - 1, !.lines = Append(@, l)]
      ELSE [r EXCEPT !.pending = @ - 1, !.lines = Append(@, l),
                     !.pc = "write", !.inflight = <<res.data[1]>>,
                     !.posts = Append(@, res.data[1])]

\* the body of the read loop for line l of LineTable: parse; on an error or no
\* event go on to the next line, else start writing the event
BLoopBody(r, l) ==
  LET res == BridgeParsed[r.kind][l]
  IN  IF res.err \/ res.data = <<>>
      THEN [r EXCEPT !.pending = @ - 1, !.lines = Append(@, l)]
      ELSE [r EXCEPT !.pending = @ - 1, !.lines = Append(@, l),
                     !.pc = "write", !.inflight = <<res.data[1]>>,
                     !.posts = Append(@, res.data[1])]

\* scanner.Scan() returns the next line of the pipe; its text is l
BScanLine(c, l) ==
  /\ program = "bridge"
  /\ conn[c].pc = "scan"
  /\ conn[c].pending > 0
  /\ l \in LinesOf(conn[c].kind)
  /\ conn' = [conn EXCEPT ![c] = BLoopBody(@, l)]
  /\ BridgeUnchanged

\* scanner.Scan() returns false: the pipe is drained and its write end closed
BScanEOF(c) ==
  /\ program = "bridge"
  /\ conn[c].pc = "scan"
  /\ conn[c].pending = 0
  /\ conn[c].proc = "exited"
  /\ conn' = [conn EXCEPT ![c].pc = "wait"]
  /\ BridgeUnchanged

\* ws.WriteJSON returned nil
BWriteOk(c) ==
  /\ program = "bridge"
  /\ conn[c].pc = "write"
  /\ ~conn[c].closed
  /\ conn' = [conn EXCEPT ![c].pc = "scan", ![c].inflight = <<>>]
  /\ BridgeUnchanged

\* a faulty read loop: after a failed write the handler returns without cmd.Wait
AfterWriteErrorReturns(r) ==
  [r EXCEPT !.pc = "return", !.inflight = <<>>, !.writeFailed = TRUE]

\* the read loop after ws.WriteJSON returned an error: break, on to cmd.Wait
AfterWriteError(r) == [r EXCEPT !.pc = "wait", !.inflight = <<>>, !.writeFailed = TRUE]

\* ws.WriteJSON returned an error
BWriteFails(c) ==
  /\ program = "bridge"
  /\ conn[c].pc = "write"
  /\ conn' = [conn EXCEPT ![c] = AfterWriteError(@)]
  /\ BridgeUnchanged

\* cmd.Wait() returns once the process has exited
BWait(c) ==
  /\ program = "bridge"
  /\ conn[c].pc = "wait"
  /\ conn[c].proc = "exited"
  /\ conn' = [conn EXCEPT ![c].pc = "return", ![c].proc = "reaped", ![c].waits = @ + 1]
  /\ BridgeUnchanged

\* a handler without the deferred ws.Close(): on return only cancel() runs
BReturnLeavesOpen(c) ==
  /\ program = "bridge"
  /\ conn[c].pc = "return"
  /\ conn' = [conn EXCEPT ![c].pc = "returned", ![c].cancelled = TRUE]
  /\ BridgeUnchanged

\* the handler returns: the deferred cancel() and ws.Close() run
BReturn(c) ==
  /\ program = "bridge"
  /\ conn[c].pc = "return"
  /\ conn' = [conn EXCEPT ![c].pc = "returned", ![c].cancelled = TRUE, ![c].closed = TRUE]
  /\ BridgeUnchanged

\* the process writes a line to its standard output
BEmit(c) ==
  /\ program = "bridge"
  /\ conn[c].proc = "running"
  /\ written < MaxLines
  /\ written' = written + 1
  /\ conn' = [conn EXCEPT ![c].pending = @ + 1]
  /\ UNCHANGED <<program, serverVars, wsVars, parserVars, uploaderVars>>

\* the process exits by itself, with status zero or not
BExit(c, how) ==
  /\ program = "bridge"
  /\ conn[c].proc = "running"
  /\ conn' = [conn EXCEPT ![c].proc = "exited", ![c].exit = how]
  /\ BridgeUnchanged

\* a faulty kill: it ends every running lepu_cli process, as a kill by image
\* name would
BKillAll(c) ==
  /\ program = "bridge"
  /\ conn[c].proc = "running"
  /\ conn[c].cancelled
  /\ conn' = [d \in Conns |->
               IF conn[d].proc = "running"
               THEN [conn[d] EXCEPT !.proc = "exited", !.exit = "killed"]
               ELSE conn[d]]
  /\ BridgeUnchanged

\* a command made without the context: cancelling does not kill its process
BKillIgnored(c) ==
  /\ program = "bridge"
  /\ conn[c].proc = "running"
  /\ conn[c].cancelled
  /\ UNCHANGED vars

\* exec.CommandContext: once the context is done the process is killed
BKill(c) ==
  /\ program = "bridge"
  /\ conn[c].proc = "running"
  /\ conn[c].cancelled
  /\ conn' = [conn EXCEPT ![c].proc = "exited", ![c].exit = "killed"]
  /\ BridgeUnchanged

\* the steps of the handler of connection c
HandlerStep(c) ==
  \/ BPipeFails(c) \/ BStartFails(c) \/ BStartSucceeds(c)
  \/ \E l \in 1..Len(LineTable) : BScanLine(c, l)
  \/ BScanEOF(c) \/ BWriteOk(c) \/ BWriteFails(c)
  \/ BWait(c) \/ BReturn(c)

\* the steps of connection c: its client, its handler, its reader goroutine,
\* its process and the process's watcher
ConnNext(c) ==
  \/ \E kind \in BridgeKinds : Upgrade(c, kind)
  \/ UpgradeFails(c)
  \/ ClientCloses(c)
  \/ ReadClosed(c)
  \/ ReadError(c)
  \/ HandlerStep(c)
  \/ BEmit(c)
  \/ \E how \in {"zero", "nonzero"} : BExit(c, how)
  \/ BKill(c)

BridgeNext == \E c \in Conns : ConnNext(c)

(***************************************************************************)
(* Specifications: both programs, and each program alone.                   *)
(***************************************************************************)
(***************************************************************************)
(* The parsers on their own: a line is made from its parts and handed to    *)
(* one of the line parsers.                                                 *)
(***************************************************************************)
\* no line has been made; no parser has been called
\* made says what the line is made of: "values" (vals are the value texts and
\* eq the form of each part), "variant" (vals holds the line it is a variant of),
\* "irr" (vals holds the text after IRR=, eq whether the line has an IRR part),
\* "end" (an end-of-measurement line), "error" and "cuff" (vals holds the numeral),
\* "number", "nonnumber" and "other" (vals holds the text after DATA:TEMP=),
\* "noise" (a line of no shape the parser knows), "status" (a heart-rate
\* status line; vals holds the message), "badint" (vals holds the text put in
\* place of an integer, and the name of the event's field it is for), "pairs"
\* (vals holds the KEY=VALUE pairs of a heart-rate line in their order)
NoInput == [parser |-> "none", made |-> "none", vals |-> <<>>, eq |-> <<>>, line |-> <<>>]
NotParsed == [by |-> "none", res |-> NoEvent]

InitParsers == parseArg = NoInput /\ parseRet = NotParsed

\* decimal numerals of integers, within and beyond the range of int
IntTexts ==
  {<<"0">>,
   <<"8", "0">>,
   <<"9", "7">>,
   <<"-", "1">>,
   <<"3", "0", "0">>,
   <<"2", "1", "4", "7", "4", "8", "3", "6", "4", "7">>,
   <<"2", "1", "4", "7", "4", "8", "3", "6", "4", "8">>}

\* the line lepu_cli prints for a pulse rate p and an oxygen saturation s
HeartRateLine(p, s) == sDATA \o sPR \o <<"=">> \o p \o <<",">> \o sSPO2 \o <<"=">> \o s

HeartRateInputs ==
  {[parser |-> "HeartRate", made |-> "values", vals |-> <<p, s>>, eq |-> <<TRUE, TRUE>>,
    line |-> HeartRateLine(p, s)] : p \in IntTexts, s \in IntTexts}

\* one part of an NIBP result: the key and the value, with "=" between or not
NIBPField(key, val, eq) == key \o (IF eq THEN <<"=">> ELSE <<>>) \o val

\* the result line for the values vals = <<sys, dia, map, pr>>, each part in
\* KEY=VALUE form where eq says so and in concatenated form where not
NIBPLine(vals, eq) ==
  sRESULT \o NIBPField(sSYS, vals[1], eq[1]) \o <<",">>
          \o NIBPField(sDIA, vals[2], eq[2]) \o <<",">>
          \o NIBPField(sMAP, vals[3], eq[3]) \o <<",">>
          \o NIBPField(sPR, vals[4], eq[4])

\* the value texts of the NIBP results of the model
NIBPVals ==
  {<<sys, dia, map, pr>> : sys \in {<<"1", "1", "0">>, <<"9", "5">>}, dia \in {<<"7", "0">>, <<>>},
                           map \in {<<"8", "5">>, <<"-", "1">>}, pr \in {<<"7", "2">>, <<"0", "0", "7">>}}

NIBPForms == {<<a, b, c, d>> : a \in BOOLEAN, b \in BOOLEAN, c \in BOOLEAN, d \in BOOLEAN}

NIBPInputs ==
  {[parser |-> "NIBP", made |-> "values", vals |-> v, eq |-> f, line |-> NIBPLine(v, f)] :
     v \in NIBPVals, f \in NIBPForms}

Letters ==
  {"a", "b", "c", "d", "e", "f", "g", "h", "i", "j", "k", "l", "m",
   "n", "o", "p", "q", "r", "s", "t", "u", "v", "w", "x", "y", "z"}

\* the letter c in the other case; c itself when it is no letter
SwapCase(c) ==
  IF UpperOf(c) # c THEN UpperOf(c)
  ELSE IF \E l \in Letters : UpperOf(l) = c THEN CHOOSE l \in Letters : UpperOf(l) = c
  ELSE c

ToLower(s) == [i \in 1..Len(s) |-> IF UpperOf(s[i]) = s[i] THEN SwapCase(s[i]) ELSE s[i]]

\* the text s with c put in after its first i characters
InsertAt(s, i, c) == SubSeq(s, 1, i) \o <<c>> \o SubSeq(s, i + 1, Len(s))

\* the text s without its i-th character
RemoveAt(s, i) == SubSeq(s, 1, i - 1) \o SubSeq(s, i + 1, Len(s))

\* the texts that differ from s in the case of letters, or in one space or
\* carriage return put in or taken out
Variants(s) ==
  {s, ToLower(s), ToUpper(s)}
    \cup {[s EXCEPT ![i] = SwapCase(s[i])] : i \in 1..Len(s)}
    \cup {InsertAt(s, i, c) : i \in 0..Len(s), c \in {" ", "\r"}}
    \cup {RemoveAt(s, i) : i \in {j \in 1..Len(s) : s[j] \in {" ", "\r"}}}

\* lines of the NIBP mode as lepu_cli prints them, and one of no mode
NIBPBaseLines ==
  {<<"D", "A", "T", "A", ":", "N", "I", "B", "P", "_", "R", "E", "S", "U", "L", "T", ":", "S", "Y", "S", "=", "1", "1", "0", ",", "D", "I", "A", "7", "0", ",", "I", "R", "R", "=", "T", "r", "u", "e">>,
   <<"D", "A", "T", "A", ":", " ", "C", "U", "F", "F", "_", "P", "R", "E", "S", "S", "U", "R", "E", " ", "=", " ", "1", "2", "0", "\r">>,
   <<"S", "T", "A", "T", "U", "S", ":", "N", "I", "B", "P", "_", "E", "R", "R", "O", "R", "=", "5">>,
   <<"S", "T", "A", "T", "U", "S", ":", "N", "I", "B", "P", "_", "E", "N", "D">>,
   <<"S", "t", "a", "t", "u", "s", ":", " ", "N", "i", "b", "p", "_", "E", "n", "d">>,
   <<"N", "O", "I", "S", "E">>}

NIBPVariantInputs ==
  UNION {{[parser |-> "NIBP", made |-> "variant", vals |-> <<b>>, eq |-> <<>>, line |-> v] :
            v \in Variants(b)} : b \in NIBPBaseLines}

\* the uploader's parseHeartRateLine is called with the line
ParseHeartRate ==
  /\ program = "parsers"
  /\ parseArg.parser = "HeartRate"
  /\ parseRet = NotParsed
  /\ parseRet' = [by |-> "uploader", res |-> parseHeartRateLine(parseArg.line)]
  /\ UNCHANGED <<program, serverVars, wsVars, parseArg, uploaderVars, written, conn>>

\* the bridge's parseHeartRateLine is called with the line
BridgeParseHeartRate ==
  /\ program = "parsers"
  /\ parseArg.parser = "HeartRate"
  /\ parseRet = NotParsed
  /\ parseRet' = [by |-> "bridge", res |-> BridgeParser("HeartRate", parseArg.line)]
  /\ UNCHANGED <<program, serverVars, wsVars, parseArg, uploaderVars, written, conn>>

\* the uploader's parseNIBPLine is called with the line
ParseNIBP ==
  /\ program = "parsers"
  /\ parseArg.parser = "NIBP"
  /\ parseRet = NotParsed
  /\ parseRet' = [by |-> "uploader", res |-> parseNIBPLine(parseArg.line)]
  /\ UNCHANGED <<program, serverVars, wsVars, parseArg, uploaderVars, written, conn>>

\* the bridge's parseNIBPLine is called with the line
BridgeParseNIBP ==
  /\ program = "parsers"
  /\ parseArg.parser = "NIBP"
  /\ parseRet = NotParsed
  /\ parseRet' = [by |-> "bridge", res |-> BridgeParser("NIBP", parseArg.line)]
  /\ UNCHANGED <<program, serverVars, wsVars, parseArg, uploaderVars, written, conn>>

\* the uploader's parseTemperatureLine is called with the line
ParseTemperature ==
  /\ program = "parsers"
  /\ parseArg.parser = "Temperature"
  /\ parseRet = NotParsed
  /\ parseRet' = [by |-> "uploader", res |-> parseTemperatureLine(parseArg.line)]
  /\ UNCHANGED <<program, serverVars, wsVars, parseArg, uploaderVars, written, conn>>

\* the bridge's parseTemperatureLine is called with the line
BridgeParseTemperature ==
  /\ program = "parsers"
  /\ parseArg.parser = "Temperature"
  /\ parseRet = NotParsed
  /\ parseRet' = [by |-> "bridge", res |-> BridgeParser("Temperature", parseArg.line)]
  /\ UNCHANGED <<program, serverVars, wsVars, parseArg, uploaderVars, written, conn>>

\* the uploader's parseGlucoseLine is called with the line
ParseGlucose ==
  /\ program = "parsers"
  /\ parseArg.parser = "Glucose"
  /\ parseRet = NotParsed
  /\ parseRet' = [by |-> "uploader", res |-> parseGlucoseLine(parseArg.line)]
  /\ UNCHANGED <<program, serverVars, wsVars, parseArg, uploaderVars, written, conn>>

\* the bridge's parseGlucoseLine is called with the line
BridgeParseGlucose ==
  /\ program = "parsers"
  /\ parseArg.parser = "Glucose"
  /\ parseRet = NotParsed
  /\ parseRet' = [by |-> "bridge", res |-> BridgeParser("Glucose", parseArg.line)]
  /\ UNCHANGED <<program, serverVars, wsVars, parseArg, uploaderVars, written, conn>>

ParsersNext ==
  \/ ParseHeartRate \/ BridgeParseHeartRate
  \/ ParseNIBP \/ BridgeParseNIBP
  \/ ParseGlucose \/ BridgeParseGlucose
  \/ ParseTemperature \/ BridgeParseTemperature

(***************************************************************************)
(* The web server (src/unnamed/part_001).                                   *)
(***************************************************************************)
\* the most requests of each kind the model follows
MaxIngests == 2
MaxFeeds == 2
MaxSubs == 2
MaxControls == 2
MaxFrames == 2

FeedConns == 1..MaxFeeds
Subs == 1..MaxSubs

\* a request to /ws/feed that has not come in yet
IdleFeed == [pc |-> "idle", closed |-> FALSE, gone |-> FALSE,
             currentClinic |-> <<"U", "n", "k", "n", "o", "w", "n">>,
             currentPatient |-> <<"U", "n", "k", "n", "o", "w", "n">>,
             meta |-> <<>>, cmds |-> <<>>]

\* a request to /ws/stream that has not come in yet
IdleSub == [pc |-> "idle", key |-> <<>>, closed |-> FALSE, gone |-> FALSE, got |-> <<>>]

InitServer ==
  /\ files = [p \in {} |-> <<>>]
  /\ feedConn = 0
  /\ feed = [c \in FeedConns |-> IdleFeed]
  /\ streams = [k \in {} |-> {}]
  /\ sub = [u \in Subs |-> IdleSub]
  /\ answers = <<>>
  /\ relayed = <<>>

\* the names of the fields of the events, as text
KeyText ==
  [type |-> <<"t", "y", "p", "e">>,
   pr |-> <<"p", "r">>,
   spo2 |-> <<"s", "p", "o", "2">>,
   glu |-> <<"g", "l", "u">>,
   temp |-> <<"t", "e", "m", "p">>,
   msg |-> <<"m", "s", "g">>,
   cuff_pressure |-> <<"c", "u", "f", "f", "_", "p", "r", "e", "s", "s", "u", "r", "e">>,
   sys |-> <<"s", "y", "s">>,
   dia |-> <<"d", "i", "a">>,
   map |-> <<"m", "a", "p">>,
   irr |-> <<"i", "r", "r">>,
   code |-> <<"c", "o", "d", "e">>,
   patient_name |-> <<"p", "a", "t", "i", "e", "n", "t", "_", "n", "a", "m", "e">>,
   clinic_name |-> <<"c", "l", "i", "n", "i", "c", "_", "n", "a", "m", "e">>]

\* the JSON type of the value of each field
JSONType(f) ==
  IF f \in {"type", "msg", "patient_name", "clinic_name"} THEN "string"
  ELSE IF f = "irr" THEN "bool"
  ELSE "number"

JSONValue(t, v) == [t |-> t, v |-> v]

\* json.Marshal of an event and json.Unmarshal of the text into a Go map: the
\* object with the names as text and each value with its JSON type
MarshalField(e, f) == JSONValue(JSONType(f), e[f])

Marshal(e) ==
  [k \in {KeyText[f] : f \in DOMAIN e} |-> MarshalField(e, CHOOSE f \in DOMAIN e : KeyText[f] = k)]

sUnknown == <<"U", "n", "k", "n", "o", "w", "n">>
sUnknownDir == <<"u", "n", "k", "n", "o", "w", "n">>

safe(s) == IF TrimSpace(s) = <<>> THEN sUnknownDir ELSE TrimSpace(s)

metricFile(data) ==
  LET lowerKeys == {ToLower(k) : k \in DOMAIN data}
  IN  IF KeyText.pr \in lowerKeys \/ KeyText.spo2 \in lowerKeys THEN "heart_rate.json"
      ELSE IF \/ KeyText.sys \in lowerKeys \/ KeyText.dia \in lowerKeys
              \/ KeyText.cuff_pressure \in lowerKeys THEN "bp.json"
      ELSE IF KeyText.glu \in lowerKeys THEN "glucose.json"
      ELSE IF KeyText.temp \in lowerKeys THEN "temperature.json"
      ELSE "misc.json"

\* the name a body carries under key when it is a string there, else Unknown
NameIn(data, key) ==
  IF key \in DOMAIN data /\ data[key].t = "string" THEN data[key].v ELSE sUnknown

\* the record handleIngest makes of a body (its time stamp is left out)
RecordOf(data) ==
  [patient_name |-> NameIn(data, KeyText.patient_name),
   clinic_name |-> NameIn(data, KeyText.clinic_name),
   data |-> data]

\* the file saveRecord writes the record to: directory of the clinic,
\* directory of the patient, file of the metric
PathOf(record) == <<safe(record.clinic_name), safe(record.patient_name), metricFile(record.data)>>

\* the files after saveRecord has appended the record
saveRecord(fs, record) ==
  [p \in (DOMAIN fs) \cup {PathOf(record)} |->
     IF p = PathOf(record)
     THEN (IF p \in DOMAIN fs THEN fs[p] ELSE <<>>) \o <<record>>
     ELSE fs[p]]

\* a line of each shape the device program prints, with the parser it is for
DeviceLines ==
  {<<"HeartRate", <<"D", "A", "T", "A", ":", "P", "R", "=", "8", "0", ",", "S", "P", "O", "2", "=", "9", "7">>>>,
   <<"HeartRate", <<"S", "T", "A", "T", "U", "S", ":", "P", "R", "O", "B", "E", "_", "O", "F", "F">>>>,
   <<"NIBP", <<"D", "A", "T", "A", ":", "C", "U", "F", "F", "_", "P", "R", "E", "S", "S", "U", "R", "E", "=", "1", "2", "0">>>>,
   <<"NIBP", <<"D", "A", "T", "A", ":", "N", "I", "B", "P", "_", "R", "E", "S", "U", "L", "T", ":", "S", "Y", "S", "=", "1", "1", "0", ",", "D", "I", "A", "=", "7", "0", ",", "M", "A", "P", "=", "8", "5", ",", "P", "R", "=", "7", "2", ",", "I", "R", "R", "=", "F", "a", "l", "s", "e">>>>,
   <<"NIBP", <<"S", "T", "A", "T", "U", "S", ":", "N", "I", "B", "P", "_", "E", "R", "R", "O", "R", "=", "5">>>>,
   <<"NIBP", <<"S", "T", "A", "T", "U", "S", ":", "N", "I", "B", "P", "_", "E", "N", "D">>>>,
   <<"Glucose", <<"D", "A", "T", "A", ":", "G", "L", "U", "=", "1", "0", "5">>>>,
   <<"Temperature", <<"D", "A", "T", "A", ":", "T", "E", "M", "P", "=", "3", "6", ".", "5">>>>}

\* what the uploader posts for these lines: the event with the two names put in
UploaderBodies ==
  {Marshal(Inject(UploaderParser(d[1], d[2]).data[1], <<"A", "l", "i", "c", "e">>, <<"C", "l", "i", "n", "i", "c", "A">>)) : d \in DeviceLines}

\* bodies of other clients: keys in upper case, no names, a patient name of
\* spaces, a patient name that is a number
OtherBodies ==
  {[k \in {<<"P", "R">>} |-> JSONValue("number", 80)],
   [k \in {} |-> JSONValue("number", 0)],
   [k \in {KeyText.patient_name, KeyText.glu} |->
      IF k = KeyText.glu THEN JSONValue("number", 105) ELSE JSONValue("string", <<" ", " ">>)],
   [k \in {KeyText.patient_name, KeyText.temp} |-> JSONValue("number", 7)]}

\* the requests to /api/ingest: a POST with a JSON object, a POST with a body
\* that is no JSON, another method, and the preflight of a browser
IngestRequests ==
  {[method |-> "POST", json |-> TRUE, data |-> b] : b \in UploaderBodies \cup OtherBodies}
    \cup {[method |-> "POST", json |-> FALSE, data |-> <<>>],
          [method |-> "GET", json |-> FALSE, data |-> <<>>],
          [method |-> "OPTIONS", json |-> FALSE, data |-> <<>>]}

\* the status handleIngest answers with; saved tells whether the directory and
\* the file could be written
IngestStatus(req, saved) ==
  IF req.method = "OPTIONS" THEN 200
  ELSE IF req.method # "POST" THEN 405
  ELSE IF ~req.json THEN 400
  ELSE IF ~saved THEN 500
  ELSE 200

Ingested == Len(SelectSeq(answers, LAMBDA a : a.req = "ingest"))

\* handleIngest serves one request
HandleIngest ==
  /\ program = "server"
  /\ Ingested < MaxIngests
  /\ \E req \in IngestRequests, saved \in BOOLEAN :
       /\ answers' = Append(answers, [req |-> "ingest", status |-> IngestStatus(req, saved)])
       /\ files' = IF req.method = "POST" /\ req.json /\ saved
                   THEN saveRecord(files, RecordOf(req.data))
                   ELSE files
  /\ UNCHANGED <<program, feedConn, feed, streams, sub, relayed, wsVars, parserVars,
                 uploaderVars, written, conn>>


(***************************************************************************)
(* The uploader's feed-control WebSocket (src/main.go, connectWS).          *)
(***************************************************************************)
MaxSockets == 2

Sockets == 1..MaxSockets

\* a connection no Connect has made yet
IdleSocket == [pc |-> "idle", closed |-> FALSE, cancelled |-> FALSE, gone |-> FALSE,
               cmd |-> "none"]

wsDisconnected == "WS: Disconnected"
wsConnected == "WS: Connected"

InitWS ==
  /\ wsConn = 0
  /\ wsCancel = 0
  /\ wsock = [w \in Sockets |-> IdleSocket]
  /\ wsStatus = wsDisconnected
  /\ wsPending = 0

\* what the user may have in the WebSocket URL entry
WSUrlTexts == {<<"w", "s", ":", "/", "/", "l", "o", "c", "a", "l", "h", "o", "s", "t", ":", "8", "0", "8", "1", "/", "w", "s", "/", "f", "e", "e", "d">>, <<" ">>}

\* the button handlers run on the one UI thread: none starts while connectWS
\* waits for its dial
UIFree == \A w \in Sockets : wsock[w].pc # "dialing"

\* Connect WS is pressed while a connection is set: refused
ConnectRejected ==
  /\ program = "uploader"
  /\ UIFree
  /\ wsConn # 0
  /\ uiMsg' = "Error: WS already connected"
  /\ UNCHANGED <<program, serverVars, wsVars, parserVars, currentCmd, cancelFunc, stopEnabled,
                 pendingDisable, written, sess, conn>>

\* Connect WS is pressed with no connection set and an empty URL
ConnectEmptyURL ==
  /\ program = "uploader"
  /\ UIFree
  /\ wsConn = 0
  /\ \E u \in WSUrlTexts : TrimSpace(u) = <<>>
  /\ uiMsg' = "Error: Enter WS URL"
  /\ UNCHANGED <<program, serverVars, wsVars, parserVars, currentCmd, cancelFunc, stopEnabled,
                 pendingDisable, written, sess, conn>>

\* Connect WS is pressed with no connection set and a URL: connectWS has left
\* its first locked section and dials the connection w
ConnectCheck(w) ==
  /\ program = "uploader"
  /\ UIFree
  /\ wsConn = 0
  /\ \E u \in WSUrlTexts : TrimSpace(u) # <<>>
  /\ wsock[w].pc = "idle"
  /\ \A v \in Sockets : v < w => wsock[v].pc # "idle"
  /\ wsock' = [wsock EXCEPT ![w].pc = "dialing"]
  /\ UNCHANGED <<program, serverVars, wsConn, wsCancel, wsStatus, wsPending, parserVars,
                 uploaderVars, written, conn>>

\* the dial fails: connectWS cancels the context and returns
ConnectDialFails(w) ==
  /\ program = "uploader"
  /\ wsock[w].pc = "dialing"
  /\ wsock' = [wsock EXCEPT ![w].pc = "failed", ![w].cancelled = TRUE]
  /\ uiMsg' = "WS connect error"
  /\ UNCHANGED <<program, serverVars, wsConn, wsCancel, wsStatus, wsPending, parserVars,
                 currentCmd, cancelFunc, stopEnabled, pendingDisable, written, sess, conn>>

\* the dial succeeds: under wsMu connectWS sets wsConn and wsCancel, then it
\* starts the reader goroutine
ConnectDialed(w) ==
  /\ program = "uploader"
  /\ wsock[w].pc = "dialing"
  /\ wsConn' = w
  /\ wsCancel' = w
  /\ wsock' = [wsock EXCEPT ![w].pc = "reading"]
  /\ wsStatus' = wsConnected
  /\ uiMsg' = "WS connected"
  /\ UNCHANGED <<program, serverVars, wsPending, parserVars,
                 currentCmd, cancelFunc, stopEnabled, pendingDisable, written, sess, conn>>

\* the connections after the one wsConn refers to was closed and the context
\* wsCancel refers to was cancelled
SocketsAfterClose(wc, cc) ==
  [v \in Sockets |->
     [wsock[v] EXCEPT !.closed = @ \/ v = wc, !.cancelled = @ \/ v = cc]]

\* Disconnect WS is pressed: disconnectWS, under wsMu
Disconnect ==
  /\ program = "uploader"
  /\ UIFree
  /\ wsock' = SocketsAfterClose(wsConn, wsCancel)
  /\ wsConn' = 0
  /\ wsCancel' = 0
  /\ wsStatus' = wsDisconnected
  /\ UNCHANGED <<program, serverVars, wsPending, parserVars, uploaderVars, written, conn>>

\* the server closes its end of the connection, or the network drops it
WSPeerCloses(w) ==
  /\ program = "uploader"
  /\ wsock[w].pc = "reading"
  /\ ~wsock[w].gone
  /\ wsock' = [wsock EXCEPT ![w].gone = TRUE]
  /\ UNCHANGED <<program, serverVars, wsConn, wsCancel, wsStatus, wsPending, parserVars,
                 uploaderVars, written, conn>>

\* the reader goroutine reads a command: start, stop or another text
ReaderCommand(w) ==
  /\ program = "uploader"
  /\ wsock[w].pc = "reading"
  /\ ~wsock[w].closed /\ ~wsock[w].gone
  /\ \E cmd \in {"start", "stop", "other"} : wsock' = [wsock EXCEPT ![w].cmd = cmd]
  /\ UNCHANGED <<program, serverVars, wsConn, wsCancel, wsStatus, wsPending, parserVars,
                 uploaderVars, written, conn>>

\* ReadMessage returns an error, on a connection that was closed on either
\* end: the reader goroutine returns and its deferred function is due
ReaderReadError(w) ==
  /\ program = "uploader"
  /\ wsock[w].pc = "reading"
  /\ wsock[w].closed \/ wsock[w].gone
  /\ wsock' = [wsock EXCEPT ![w].pc = "cleanup"]
  /\ UNCHANGED <<program, serverVars, wsConn, wsCancel, wsStatus, wsPending, parserVars,
                 uploaderVars, written, conn>>

\* the deferred function of the reader goroutine of w, under wsMu: it closes
\* the connection wsConn refers to, cancels the context wsCancel refers to,
\* clears both and queues the label's text
ReaderCleanup(w) ==
  /\ program = "uploader"
  /\ wsock[w].pc = "cleanup"
  /\ wsock' = [SocketsAfterClose(wsConn, wsCancel) EXCEPT ![w].pc = "done"]
  /\ wsConn' = 0
  /\ wsCancel' = 0
  /\ wsPending' = wsPending + 1
  /\ UNCHANGED <<program, serverVars, wsStatus, parserVars, uploaderVars, written, conn>>

\* the UI thread runs a queued wsStatus.SetText("WS: Disconnected")
RunStatus ==
  /\ program = "uploader"
  /\ UIFree
  /\ wsPending > 0
  /\ wsStatus' = wsDisconnected
  /\ wsPending' = wsPending - 1
  /\ UNCHANGED <<program, serverVars, wsConn, wsCancel, wsock, parserVars, uploaderVars,
                 written, conn>>

\* the steps of the connection w: its dial, its reader goroutine, its peer
SocketStep(w) ==
  \/ ConnectCheck(w)
  \/ ConnectDialFails(w)
  \/ ConnectDialed(w)
  \/ WSPeerCloses(w)
  \/ ReaderCommand(w)
  \/ ReaderReadError(w)
  \/ ReaderCleanup(w)

WSNext ==
  \/ ConnectRejected
  \/ ConnectEmptyURL
  \/ Disconnect
  \/ RunStatus
  \/ \E w \in Sockets : SocketStep(w)

\* the upgrade of a request to /ws/feed succeeds
FeedUpgrade(c) ==
  /\ program = "server"
  /\ feed[c].pc = "idle"
  /\ feed' = [feed EXCEPT ![c].pc = "upgraded"]
  /\ UNCHANGED <<program, files, feedConn, streams, sub, answers, relayed, wsVars, parserVars,
                 uploaderVars, written, conn>>

\* the upgrade fails: the handler logs and returns
FeedUpgradeFails(c) ==
  /\ program = "server"
  /\ feed[c].pc = "idle"
  /\ feed' = [feed EXCEPT ![c].pc = "refused"]
  /\ UNCHANGED <<program, files, feedConn, streams, sub, answers, relayed, wsVars, parserVars,
                 uploaderVars, written, conn>>

\* the handlers after c has registered while fc was registered: the previous
\* connection, when there is one, is closed
FeedsAfterRegister(fc, c) ==
  IF fc # 0
  THEN [feed EXCEPT ![fc].closed = TRUE, ![c].pc = "reading"]
  ELSE [feed EXCEPT ![c].pc = "reading"]

\* under wsMutex: the handler closes the registered connection and registers its own
FeedRegister(c) ==
  /\ program = "server"
  /\ feed[c].pc = "upgraded"
  /\ feed' = FeedsAfterRegister(feedConn, c)
  /\ feedConn' = c
  /\ UNCHANGED <<program, files, streams, sub, answers, relayed, wsVars, parserVars,
                 uploaderVars, written, conn>>

\* the desktop closes its end of the connection, or the network drops it
FeedPeerCloses(c) ==
  /\ program = "server"
  /\ feed[c].pc \in {"upgraded", "reading"}
  /\ ~feed[c].gone
  /\ feed' = [feed EXCEPT ![c].gone = TRUE]
  /\ UNCHANGED <<program, files, feedConn, streams, sub, answers, relayed, wsVars, parserVars,
                 uploaderVars, written, conn>>

\* ReadMessage returns an error, on a connection that was closed on either
\* end: the read loop ends
FeedReadError(c) ==
  /\ program = "server"
  /\ feed[c].pc = "reading"
  /\ feed[c].closed \/ feed[c].gone
  /\ feed' = [feed EXCEPT ![c].pc = "ended"]
  /\ UNCHANGED <<program, files, feedConn, streams, sub, answers, relayed, wsVars, parserVars,
                 uploaderVars, written, conn>>

\* a faulty cleanup: the registration is cleared whatever it refers to
ClearFeedAlways(fc, c) == 0

\* the registration after the cleanup of the handler of c
ClearFeed(fc, c) == IF fc = c THEN 0 ELSE fc

\* under wsMutex: the handler clears the registration if it is its own, and returns
FeedClear(c) ==
  /\ program = "server"
  /\ feed[c].pc = "ended"
  /\ feedConn' = ClearFeed(feedConn, c)
  /\ feed' = [feed EXCEPT ![c].pc = "done"]
  /\ UNCHANGED <<program, files, streams, sub, answers, relayed, wsVars, parserVars,
                 uploaderVars, written, conn>>

\* a faulty sendControl: a failed write leaves the registration in place
sendControlKeepsConn(fc, ok) ==
  IF fc = 0 THEN [err |-> TRUE, wrote |-> FALSE, feedConn |-> 0]
  ELSE IF ~ok THEN [err |-> TRUE, wrote |-> FALSE, feedConn |-> fc]
  ELSE [err |-> FALSE, wrote |-> TRUE, feedConn |-> fc]

\* sendControl with fc registered, ok telling whether the write succeeds:
\* whether it returns an error, whether the command was written, and the
\* registration it leaves
sendControl(fc, ok) ==
  IF fc = 0 THEN [err |-> TRUE, wrote |-> FALSE, feedConn |-> 0]
  ELSE IF ~ok THEN [err |-> TRUE, wrote |-> FALSE, feedConn |-> 0]
  ELSE [err |-> FALSE, wrote |-> TRUE, feedConn |-> fc]

ControlCommands == {"start", "stop"}

Controlled == Len(SelectSeq(answers, LAMBDA a : a.req # "ingest"))

\* the preflight of a browser to /api/feed/start or /api/feed/stop: answered
\* with 200 before sendControl is reached
ControlPreflight ==
  /\ program = "server"
  /\ Controlled < MaxControls
  /\ answers' = Append(answers, [req |-> "preflight", status |-> 200])
  /\ UNCHANGED <<program, files, feedConn, feed, streams, sub, relayed, wsVars, parserVars,
                 uploaderVars, written, conn>>

\* the control r has run for the command cmd: the connection has the command
\* if it was written, and the request is answered
ControlDone(cmd, r) ==
  /\ feedConn' = r.feedConn
  /\ feed' = IF r.wrote
             THEN [feed EXCEPT ![feedConn].cmds = Append(@, cmd)]
             ELSE feed
  /\ answers' = Append(answers, [req |-> cmd, status |-> IF r.err THEN 503 ELSE 200])

\* handleFeedStart and handleFeedStop serve a request that is no preflight
HandleControl ==
  /\ program = "server"
  /\ Controlled < MaxControls
  /\ \E cmd \in ControlCommands, ok \in BOOLEAN : ControlDone(cmd, sendControl(feedConn, ok))
  /\ UNCHANGED <<program, files, streams, sub, relayed, wsVars, parserVars,
                 uploaderVars, written, conn>>

\* the steps of the handler of the feed connection c, and of its peer
FeedStep(c) ==
  \/ FeedUpgrade(c)
  \/ FeedUpgradeFails(c)
  \/ FeedRegister(c)
  \/ FeedPeerCloses(c)
  \/ FeedReadError(c)
  \/ FeedClear(c)

FeedNext ==
  \/ \E c \in FeedConns : FeedStep(c)
  \/ ControlPreflight
  \/ HandleControl

streamKey(clinic, patient) == safe(clinic) \o <<"|">> \o safe(patient)

\* the clinic and patient parameters of the requests to /ws/stream
StreamQueries ==
  {<<<<"C", "l", "i", "n", "i", "c", "A">>, <<"A", "l", "i", "c", "e">>>>,
   <<<<"C", "l", "i", "n", "i", "c", "A">>, <<" ">>>>,
   <<<<"U", "n", "k", "n", "o", "w", "n">>, <<"U", "n", "k", "n", "o", "w", "n">>>>,
   <<<<"C", "l", "i", "n", "i", "c", "A">>, <<>>>>}

\* a request without clinic or without patient is answered with 400
SubBadRequest(u) ==
  /\ program = "server"
  /\ sub[u].pc = "idle"
  /\ \E q \in StreamQueries : q[1] = <<>> \/ q[2] = <<>>
  /\ sub' = [sub EXCEPT ![u].pc = "refused"]
  /\ UNCHANGED <<program, files, feedConn, feed, streams, answers, relayed, wsVars, parserVars,
                 uploaderVars, written, conn>>

\* the upgrade of a request with both parameters succeeds
SubUpgrade(u) ==
  /\ program = "server"
  /\ sub[u].pc = "idle"
  /\ \E q \in StreamQueries :
       /\ q[1] # <<>> /\ q[2] # <<>>
       /\ sub' = [sub EXCEPT ![u].pc = "upgraded", ![u].key = streamKey(q[1], q[2])]
  /\ UNCHANGED <<program, files, feedConn, feed, streams, answers, relayed, wsVars, parserVars,
                 uploaderVars, written, conn>>

\* the upgrade fails: the handler logs and returns
SubUpgradeFails(u) ==
  /\ program = "server"
  /\ sub[u].pc = "idle"
  /\ sub' = [sub EXCEPT ![u].pc = "refused"]
  /\ UNCHANGED <<program, files, feedConn, feed, streams, answers, relayed, wsVars, parserVars,
                 uploaderVars, written, conn>>

\* the map st with u put in under key
StreamsWith(st, key, u) ==
  [k \in (DOMAIN st) \cup {key} |->
     IF k = key THEN (IF k \in DOMAIN st THEN st[k] ELSE {}) \cup {u} ELSE st[k]]

\* under streamsMu: the handler registers its connection under its key
SubRegister(u) ==
  /\ program = "server"
  /\ sub[u].pc = "upgraded"
  /\ streams' = StreamsWith(streams, sub[u].key, u)
  /\ sub' = [sub EXCEPT ![u].pc = "reading"]
  /\ UNCHANGED <<program, files, feedConn, feed, answers, relayed, wsVars, parserVars,
                 uploaderVars, written, conn>>

\* the viewer closes its end of the connection, or the network drops it
SubPeerCloses(u) ==
  /\ program = "server"
  /\ sub[u].pc \in {"upgraded", "reading"}
  /\ ~sub[u].gone
  /\ sub' = [sub EXCEPT ![u].gone = TRUE]
  /\ UNCHANGED <<program, files, feedConn, feed, streams, answers, relayed, wsVars, parserVars,
                 uploaderVars, written, conn>>

\* ReadMessage returns an error, on a connection that was closed on either
\* end: the read loop ends
SubReadError(u) ==
  /\ program = "server"
  /\ sub[u].pc = "reading"
  /\ sub[u].closed \/ sub[u].gone
  /\ sub' = [sub EXCEPT ![u].pc = "ended"]
  /\ UNCHANGED <<program, files, feedConn, feed, streams, answers, relayed, wsVars, parserVars,
                 uploaderVars, written, conn>>

\* the map st without the key
DeleteKey(st, key) == [k \in (DOMAIN st) \ {key} |-> st[k]]

\* a faulty removal: the key stays in the map when its last subscriber goes
StreamsWithoutKeepsKey(st, key, gone) ==
  IF key \notin DOMAIN st THEN st ELSE [st EXCEPT ![key] = @ \ gone]

\* the map st with the subscribers gone taken out from under key, and the key
\* taken out with its last subscriber
StreamsWithout(st, key, gone) ==
  IF key \notin DOMAIN st THEN st
  ELSE IF st[key] \ gone = {} THEN DeleteKey(st, key)
  ELSE [st EXCEPT ![key] = @ \ gone]

\* under streamsMu: the handler takes its connection out; then it closes the
\* connection and returns
SubUnregister(u) ==
  /\ program = "server"
  /\ sub[u].pc = "ended"
  /\ streams' = StreamsWithout(streams, sub[u].key, {u})
  /\ sub' = [sub EXCEPT ![u].pc = "done", ![u].closed = TRUE]
  /\ UNCHANGED <<program, files, feedConn, feed, answers, relayed, wsVars, parserVars,
                 uploaderVars, written, conn>>

\* the subscribers registered under key
SubscribersOf(st, key) == IF key \in DOMAIN st THEN st[key] ELSE {}

\* broadcastFrame(key, frame), the writes to the subscribers in failed failing:
\* the others under the key get the frame, the failed are closed and taken out
broadcastFrame(key, frame, failed) ==
  /\ streams' = IF SubscribersOf(streams, key) = {} THEN streams
                ELSE StreamsWithout(streams, key, failed)
  /\ sub' = [u \in Subs |->
               IF u \in failed THEN [sub[u] EXCEPT !.closed = TRUE]
               ELSE IF u \in SubscribersOf(streams, key)
               THEN [sub[u] EXCEPT !.got = Append(@, frame)]
               ELSE sub[u]]

\* the read loop of handleFeedWS reads a binary message: the frame is
\* broadcast under the key of the handler's current clinic and patient
FeedReadBinary(c) ==
  /\ program = "server"
  /\ feed[c].pc = "reading"
  /\ ~feed[c].closed /\ ~feed[c].gone
  /\ Len(relayed) < MaxFrames
  /\ \E failed \in SUBSET SubscribersOf(streams, streamKey(feed[c].currentClinic, feed[c].currentPatient)) :
       broadcastFrame(streamKey(feed[c].currentClinic, feed[c].currentPatient),
                      Len(relayed) + 1, failed)
  /\ relayed' = Append(relayed, [feed |-> c,
                                 key |-> streamKey(feed[c].currentClinic, feed[c].currentPatient)])
  /\ UNCHANGED <<program, files, feedConn, feed, answers, wsVars, parserVars,
                 uploaderVars, written, conn>>

\* the text messages a feed connection carries: the metadata the uploader
\* sends before each frame, with the clinic and the patient of its entries
\* (either may be empty), and a text that is no JSON
MetaMessages ==
  {[json |-> TRUE, clinic |-> <<"C", "l", "i", "n", "i", "c", "A">>, patient |-> <<"A", "l", "i", "c", "e">>],
   [json |-> TRUE, clinic |-> <<"C", "l", "i", "n", "i", "c", "A">>, patient |-> <<>>],
   [json |-> TRUE, clinic |-> <<"C", "l", "i", "n", "i", "c", "A">>, patient |-> <<" ">>],
   [json |-> FALSE, clinic |-> <<>>, patient |-> <<>>]}

\* the handler of c after the text message m: a name that is not empty
\* replaces the current one; meta keeps the last metadata read
FeedAfterText(f, m) ==
  IF ~m.json THEN f
  ELSE [f EXCEPT !.currentClinic = IF m.clinic # <<>> THEN m.clinic ELSE @,
                 !.currentPatient = IF m.patient # <<>> THEN m.patient ELSE @,
                 !.meta = <<m>>]

\* the read loop of handleFeedWS reads a text message
FeedReadText(c) ==
  /\ program = "server"
  /\ feed[c].pc = "reading"
  /\ ~feed[c].closed /\ ~feed[c].gone
  /\ \E m \in MetaMessages : feed' = [feed EXCEPT ![c] = FeedAfterText(@, m)]
  /\ UNCHANGED <<program, files, feedConn, streams, sub, answers, relayed, wsVars, parserVars,
                 uploaderVars, written, conn>>

\* the steps of the handler of the stream connection u, and of its peer
SubStep(u) ==
  \/ SubBadRequest(u)
  \/ SubUpgrade(u)
  \/ SubUpgradeFails(u)
  \/ SubRegister(u)
  \/ SubPeerCloses(u)
  \/ SubReadError(u)
  \/ SubUnregister(u)

\* the feed connection 1 relaying frames to the stream connections
StreamNext ==
  \/ FeedStep(1)
  \/ FeedReadBinary(1)
  \/ FeedReadText(1)
  \/ \E u \in Subs : SubStep(u)

ServerInit ==
  /\ program = "server"
  /\ InitUploader
  /\ InitBridge
  /\ InitParsers
  /\ InitServer
  /\ InitWS

StorageSpec == ServerInit /\ [][HandleIngest]_vars

\* the web server serving feed connections and control requests
FeedSpec == ServerInit /\ [][FeedNext]_vars

\* the web server relaying the frames of its first feed connection
StreamSpec == ServerInit /\ [][StreamNext]_vars

Init ==
  /\ program \in {"uploader", "bridge"}
  /\ InitUploader
  /\ InitBridge
  /\ InitParsers
  /\ InitServer
  /\ InitWS

Next == UploaderNext \/ BridgeNext

Spec == Init /\ [][Next]_vars

UploaderInit ==
  /\ program = "uploader"
  /\ InitUploader
  /\ InitBridge
  /\ InitParsers
  /\ InitServer
  /\ InitWS

UploaderSpec == UploaderInit /\ [][UploaderNext]_vars

\* the uploader's Connect WS and Disconnect WS buttons and its reader goroutines
WSSpec == UploaderInit /\ [][WSNext]_vars

BridgeInit ==
  /\ program = "bridge"
  /\ InitUploader
  /\ InitBridge
  /\ InitParsers
  /\ InitServer
  /\ InitWS

BridgeSpec == BridgeInit /\ [][BridgeNext]_vars

\* what the clinic and patient entries hold at the presses of a start button:
\* the user edits both between two starts
EntryTexts == {<<"ClinicA", "Alice">>, <<"ClinicB", "Bob">>}

\* the GUI used with its entries filled in, and edited between starts
EntriesUINext ==
  \/ StartRejected
  \/ \E e \in EntryTexts, kind \in UploaderKinds :
       StartAccepted(kind, DefaultURL, e[1], e[2])
  \/ Stop
  \/ RunDisable

EntriesNext == EntriesUINext \/ \E s \in Sessions : SessionNext(s)

EntriesSpec == UploaderInit /\ [][EntriesNext]_vars

\* the scheduling Go guarantees for connection c: a handler that can take its
\* next step takes it (a write on the connection returns), a read on a closed
\* connection returns, and the watcher of a cancelled context kills the process
BridgeFair(c) ==
  /\ WF_vars(HandlerStep(c))
  /\ WF_vars(ReadClosed(c))
  /\ WF_vars(BKill(c))

\* the bridge serving its first connection, under that scheduling
BridgeFairSpec == BridgeInit /\ [][ConnNext(1)]_vars /\ BridgeFair(1)

\* the scheduling Go guarantees for session s: a goroutine that can take its
\* next step takes it (a POST returns), and the watcher of a cancelled context
\* kills the process
UploaderFair(s) ==
  /\ WF_vars(GoroutineStep(s))
  /\ WF_vars(Kill(s))

\* either program with its first session or connection scheduled
FirstNext == UINext \/ SessionNext(1) \/ ConnNext(1)

FairSpec == Init /\ [][FirstNext]_vars /\ UploaderFair(1) /\ BridgeFair(1)

\* texts an IRR part may carry
IRRTexts ==
  {<<"T", "r", "u", "e">>,
   <<"T", "R", "U", "E">>,
   <<"t", "r", "u", "e">>,
   <<"t", "R", "u", "E">>,
   <<"F", "a", "l", "s", "e">>,
   <<"F", "A", "L", "S", "E">>,
   <<>>,
   <<"1">>,
   <<"Y", "E", "S">>,
   <<"T", "R", "U", "E", "1">>,
   <<" ", "T", "r", "u", "e">>,
   <<"T", " ", "R", "U", "E", "\r">>}

\* an NIBP result line in KEY=VALUE form, ending with IRR=<text> where has says so
IRRLine(text, has) ==
  NIBPLine(<<<<"1", "1", "0">>, <<"7", "0">>, <<"8", "5">>, <<"7", "2">>>>, <<TRUE, TRUE, TRUE, TRUE>>)
    \o (IF has THEN <<",">> \o sIRR \o <<"=">> \o text ELSE <<>>)

IRRInputs ==
  {[parser |-> "NIBP", made |-> "irr", vals |-> <<t>>, eq |-> <<TRUE>>, line |-> IRRLine(t, TRUE)] :
     t \in IRRTexts}
    \cup {[parser |-> "NIBP", made |-> "irr", vals |-> <<<<>>>>, eq |-> <<FALSE>>,
           line |-> IRRLine(<<>>, FALSE)]}

\* lines whose normalized form starts with STATUS:NIBP_END
NIBPEndLines ==
  {<<"S", "T", "A", "T", "U", "S", ":", "N", "I", "B", "P", "_", "E", "N", "D">>,
   <<"S", "T", "A", "T", "U", "S", ":", "N", "I", "B", "P", "_", "E", "N", "D", "\r">>,
   <<"s", "t", "a", "t", "u", "s", ":", "n", "i", "b", "p", "_", "e", "n", "d">>,
   <<" ", "S", "T", "A", "T", "U", "S", ":", " ", "N", "I", "B", "P", "_", "E", "N", "D">>,
   <<"S", "T", "A", "T", "U", "S", ":", "N", "I", "B", "P", "_", "E", "N", "D", "E", "D">>}

NIBPStatusInputs ==
  {[parser |-> "NIBP", made |-> "end", vals |-> <<>>, eq |-> <<>>, line |-> l] : l \in NIBPEndLines}
    \cup {[parser |-> "NIBP", made |-> "error", vals |-> <<n>>, eq |-> <<>>,
           line |-> sNIBPERR \o n] : n \in IntTexts}
    \cup {[parser |-> "NIBP", made |-> "cuff", vals |-> <<n>>, eq |-> <<>>,
           line |-> sCUFF \o n] : n \in IntTexts}

\* texts after DATA:TEMP=: decimal numbers; texts that are no number; and
\* numbers written in another way than plain decimal, or too large
TempNumbers ==
  {<<"3", "6", ".", "5">>,
   <<"3", "7">>,
   <<"0">>,
   <<"-", "1", ".", "5">>,
   <<"+", "4", "0", ".", "2", "5">>,
   <<"0", "3", "6", ".", "5", "0">>,
   <<".", "5">>,
   <<"9", "8", ".", "6">>}

TempNonNumbers ==
  {<<"a", "b", "c">>,
   <<>>,
   <<"N", "a", "N">>,
   <<"n", "a", "n">>,
   <<"I", "n", "f">>,
   <<"-", "I", "n", "f", "i", "n", "i", "t", "y">>,
   <<"1", ".", "2", ".", "3">>,
   <<"3", "6", ",", "5">>,
   <<"1", "2", "a", "b", "c">>,
   <<".">>,
   <<"-", "-", "1">>}

TempOthers ==
  {<<"1", "e", "5">>,
   <<"3", ".", "6", "5", "E", "+", "1">>,
   <<"0", "x", "1", "p", "-", "2">>,
   <<"1", "e", "3", "0", "9">>,
   <<"1", "e", "-", "4", "0", "0">>}

TempInputs ==
  {[parser |-> "Temperature", made |-> "number", vals |-> <<v>>, eq |-> <<>>,
    line |-> sTEMP \o v] : v \in TempNumbers}
    \cup {[parser |-> "Temperature", made |-> "nonnumber", vals |-> <<v>>, eq |-> <<>>,
           line |-> sTEMP \o v] : v \in TempNonNumbers}
    \cup {[parser |-> "Temperature", made |-> "other", vals |-> <<v>>, eq |-> <<>>,
           line |-> sTEMP \o v] : v \in TempOthers}

\* lines of no shape any parser knows
NoiseLines ==
  {<<>>,
   <<"N", "O", "I", "S", "E">>,
   <<"g", "a", "r", "b", "a", "g", "e">>,
   <<" ", " ">>,
   <<"\r">>,
   <<"D", "A", "T", "A">>,
   <<"S", "T", "A", "T", "U", "S">>,
   <<"I", "N", "F", "O", ":", "R", "E", "A", "D", "Y">>,
   <<"T", "E", "M", "P", "=", "3", "6", ".", "5">>,
   <<"P", "R", "=", "8", "0", ",", "S", "P", "O", "2", "=", "9", "7">>,
   <<"X", "D", "A", "T", "A", ":", "P", "R", "=", "8", "0">>,
   <<"G", "L", "U", "=", "1", "0", "5">>}

\* lines of the other modes, which a parser does not know either
ForeignLines(kind) ==
  CASE kind = "HeartRate" -> {}
    [] kind = "NIBP" -> {<<"D", "A", "T", "A", ":", "G", "L", "U", "=", "1", "0", "5">>, <<"D", "A", "T", "A", ":", "T", "E", "M", "P", "=", "3", "6", ".", "5">>, <<"S", "T", "A", "T", "U", "S", ":", "P", "R", "O", "B", "E", "_", "O", "F", "F">>}
    [] kind = "Glucose" -> {<<"D", "A", "T", "A", ":", "T", "E", "M", "P", "=", "3", "6", ".", "5">>, <<"D", "A", "T", "A", ":", "P", "R", "=", "8", "0", ",", "S", "P", "O", "2", "=", "9", "7">>, <<"S", "T", "A", "T", "U", "S", ":", "N", "I", "B", "P", "_", "E", "N", "D">>, <<"D", "A", "T", "A", ":", "G", "L", "U">>}
    [] kind = "Temperature" -> {<<"D", "A", "T", "A", ":", "G", "L", "U", "=", "1", "0", "5">>, <<"S", "T", "A", "T", "U", "S", ":", "P", "R", "O", "B", "E", "_", "O", "F", "F">>, <<"D", "A", "T", "A", ":", "T", "E", "M", "P">>, <<"d", "a", "t", "a", ":", "t", "e", "m", "p", "=", "3", "6", ".", "5">>}

NoiseInputs ==
  UNION {{[parser |-> k, made |-> "noise", vals |-> <<>>, eq |-> <<>>, line |-> l] :
            l \in NoiseLines \cup ForeignLines(k)} : k \in Kinds}

\* messages of heart-rate status lines
StatusTexts ==
  {<<"P", "R", "O", "B", "E", "_", "O", "F", "F">>, <<"F", "I", "N", "G", "E", "R", "_", "O", "U", "T">>, <<>>, <<"N", "I", "B", "P", "_", "E", "N", "D">>, <<"a", "=", "b">>}

HeartRateStatusInputs ==
  {[parser |-> "HeartRate", made |-> "status", vals |-> <<m>>, eq |-> <<>>,
    line |-> sSTATUS \o m] : m \in StatusTexts}

\* texts that strconv.Atoi does not accept: no numeral, empty, beyond int
BadIntTexts ==
  {<<"a", "b", "c">>,
   <<>>,
   <<"1", "2", "a", "b", "c">>,
   <<"1", ".", "5">>,
   <<"0", "x", "1", "0">>,
   <<"-">>,
   <<"2", "1", "4", "7", "4", "8", "3", "6", "4", "8">>,
   <<"9", "9", "9", "9", "9", "9", "9", "9", "9", "9", "9">>,
   <<"-", "2", "1", "4", "7", "4", "8", "3", "6", "4", "9">>}

\* a line of the parser with the text t in the place of one integer
BadIntInput(kind, field, t, l) ==
  [parser |-> kind, made |-> "badint", vals |-> <<t, <<field>>>>, eq |-> <<>>, line |-> l]

BadIntInputs ==
  UNION {{BadIntInput("HeartRate", "pr", t, HeartRateLine(t, <<"9", "7">>)),
          BadIntInput("HeartRate", "spo2", t, HeartRateLine(<<"8", "0">>, t)),
          BadIntInput("NIBP", "cuff_pressure", t, sCUFF \o t),
          BadIntInput("NIBP", "code", t, sNIBPERR \o t),
          BadIntInput("NIBP", "sys", t, NIBPLine(<<t, <<"7", "0">>, <<"8", "5">>, <<"7", "2">>>>, <<TRUE, TRUE, TRUE, TRUE>>)),
          BadIntInput("NIBP", "dia", t, NIBPLine(<<<<"1", "1", "0">>, t, <<"8", "5">>, <<"7", "2">>>>, <<TRUE, TRUE, TRUE, TRUE>>)),
          BadIntInput("NIBP", "map", t, NIBPLine(<<<<"1", "1", "0">>, <<"7", "0">>, t, <<"7", "2">>>>, <<TRUE, TRUE, TRUE, TRUE>>)),
          BadIntInput("NIBP", "pr", t, NIBPLine(<<<<"1", "1", "0">>, <<"7", "0">>, <<"8", "5">>, t>>, <<TRUE, TRUE, TRUE, TRUE>>)),
          BadIntInput("Glucose", "glu", t, sGLU \o t)} : t \in BadIntTexts}

\* KEY=VALUE pairs of heart-rate lines: the two keys, each with two values,
\* the keys in lower case, and a key the parser has no use for
PairTexts ==
  {<<"P", "R", "=", "8", "0">>,
   <<"P", "R", "=", "8", "1">>,
   <<"S", "P", "O", "2", "=", "9", "7">>,
   <<"S", "P", "O", "2", "=", "9", "8">>,
   <<"p", "r", "=", "6", "0">>,
   <<"s", "p", "o", "2", "=", "5", "0">>,
   <<"T", "E", "M", "P", "=", "1">>}

\* the pairs joined with commas
RECURSIVE JoinPairs(_)
JoinPairs(ps) ==
  IF ps = <<>> THEN <<>>
  ELSE IF Len(ps) = 1 THEN ps[1]
  ELSE ps[1] \o <<",">> \o JoinPairs(Tail(ps))

\* the most pairs a line of the model has
MaxPairs == 3

\* the sequences of two to MaxPairs different pairs
PairSeqs ==
  UNION {{ps \in [1..n -> PairTexts] : \A i, j \in 1..n : i # j => ps[i] # ps[j]} : n \in 2..MaxPairs}

PairInputs ==
  {[parser |-> "HeartRate", made |-> "pairs", vals |-> ps, eq |-> <<>>,
    line |-> sDATA \o JoinPairs(ps)] : ps \in PairSeqs}

\* heart-rate lines with the DATA: prefix that lack PR, SPO2 or both: the pairs
\* after the prefix
PartialPairs ==
  {<<>>,
   <<<<"G", "L", "U", "=", "5">>>>,
   <<<<"P", "R", "=", "8", "0">>>>,
   <<<<"S", "P", "O", "2", "=", "9", "7">>>>,
   <<<<"P", "R", "=", "8", "0">>, <<"G", "L", "U", "=", "5">>>>,
   <<<<"T", "E", "M", "P", "=", "3", "6", ".", "5">>, <<"S", "P", "O", "2", "=", "9", "7">>>>}

HeartRatePartialInputs ==
  {[parser |-> "HeartRate", made |-> "partial", vals |-> ps, eq |-> <<>>,
    line |-> sDATA \o JoinPairs(ps)] : ps \in PartialPairs}

\* the lines of the model, each with the parser it is for
ParserInputs == HeartRateInputs \cup NIBPInputs \cup NIBPVariantInputs \cup IRRInputs
                  \cup NIBPStatusInputs \cup TempInputs \cup NoiseInputs
                  \cup HeartRateStatusInputs \cup BadIntInputs
                  \cup PairInputs \cup HeartRatePartialInputs

\* a line made from the parts drawn, handed to one parser
ParsersInit ==
  /\ program = "parsers"
  /\ InitUploader
  /\ InitBridge
  /\ parseArg \in ParserInputs
  /\ parseRet = NotParsed
  /\ InitServer
  /\ InitWS

ParsersSpec == ParsersInit /\ [][ParsersNext]_vars

\* the status codes http.Post may hand back: 101 and every final status; the
\* other 1xx responses are consumed by the transport
MinStatus == 101
MaxStatus == 599
StatusCodes == MinStatus..MaxStatus

\* the calls of sendData of the model
SendInputs ==
  {[parser |-> "sendData", made |-> "response", vals |-> <<>>, eq |-> <<>>, line |-> <<>>,
    status |-> n] : n \in StatusCodes}
    \cup {[parser |-> "sendData", made |-> w, vals |-> <<>>, eq |-> <<>>, line |-> <<>>,
           status |-> 0] : w \in SendOutcomes \ {"response"}}

\* sendData is called and returns
SendData ==
  /\ program = "sender"
  /\ parseArg.parser = "sendData"
  /\ parseRet = NotParsed
  /\ parseRet' = [by |-> "uploader",
                  res |-> [data |-> <<>>, err |-> sendData(parseArg.made, parseArg.status)]]
  /\ UNCHANGED <<program, serverVars, wsVars, parseArg, uploaderVars, written, conn>>

SendInit ==
  /\ program = "sender"
  /\ InitUploader
  /\ InitBridge
  /\ parseArg \in SendInputs
  /\ parseRet = NotParsed
  /\ InitServer
  /\ InitWS

SendSpec == SendInit /\ [][SendData]_vars

(***************************************************************************)
(* The claims of the specification, C1 to C10.                             *)
(***************************************************************************)
\* C1 (uploader): at most one session is active at a time; a start request made
\* after a start was accepted and before that session's teardown is refused,
\* so two lepu_cli processes never run at the same time.
C1_OneProcessAtATime ==
  \A s, t \in Sessions :
    (sess[s].proc = "running" /\ sess[t].proc = "running") => s = t

\* the client's end is closed, or a read failed, while the process runs
DisconnectSeen(c) ==
  /\ conn[c].proc = "running"
  /\ ~conn[c].open \/ conn[c].reader = "stopped"

\* C2 (bridge): once the client connection is closed or an inbound read has
\* failed while the session's process runs, the context is cancelled, the
\* process is terminated, and the handler eventually reaps it and returns,
\* wherever the forward loop stands: reading a line or writing an event.
C2_DisconnectEndsSession ==
  \A c \in Conns :
    DisconnectSeen(c) ~>
      (conn[c].pc = "returned" /\ conn[c].cancelled /\ conn[c].proc = "reaped")

\* C2's case: the client went away, the reader's cancel() had the running
\* process killed, and the handler has reaped it and returned
C2_KilledAfterDisconnect ==
  \E c \in Conns :
    /\ conn[c].pc = "returned"
    /\ ~conn[c].open
    /\ conn[c].exit = "killed"
    /\ conn[c].proc = "reaped"

\* C3 (bridge): a write failure while forwarding an event ends the session: no
\* further line is read, the process receives cancel(), and wait() then
\* returns so that the handler reaches its teardown, without the reader
\* goroutine having to see a read error.
C3_WriteFailureEndsSession ==
  \A c \in Conns :
    (conn[c].writeFailed /\ conn[c].proc = "running") ~> (conn[c].pc = "returned")

\* C4 (uploader): a failed POST is logged; the session is not cancelled, the
\* event is not posted again, and the loop goes on to read the next line.
C4_FailedPostGoesOn ==
  [][\A s \in Sessions :
       (sess[s].pc = "post" /\ sess'[s].msg = "Error sending data") =>
         /\ sess'[s].pc = "scan"
         /\ sess'[s].cancelled = sess[s].cancelled
         /\ sess'[s].proc = sess[s].proc
         /\ sess'[s].posts = sess[s].posts
         /\ sess'[s].lines = sess[s].lines
         /\ sess'[s].inflight = <<>>
         /\ UNCHANGED <<currentCmd, cancelFunc>>]_vars

\* C4's case: after a POST failed, a later line was read and its event is
\* being posted, by a session whose process still runs uncancelled
C4_PostAfterFailedPost ==
  \E s \in Sessions :
    /\ sess[s].sendErrors = 1
    /\ Len(sess[s].posts) = 2
    /\ sess[s].pc = "post"
    /\ sess[s].proc = "running"
    /\ ~sess[s].cancelled

\* the events the uploader's parser of a kind yields for the lines ls, in order
RECURSIVE UploaderEvents(_, _)
UploaderEvents(kind, ls) ==
  IF ls = <<>> THEN <<>>
  ELSE LET res == UploaderParser(kind, LineTable[Head(ls)])
       IN  (IF res.err \/ res.data = <<>> THEN <<>> ELSE res.data)
             \o UploaderEvents(kind, Tail(ls))

\* the events the bridge's parser of a kind yields for the lines ls, in order
RECURSIVE BridgeEvents(_, _)
BridgeEvents(kind, ls) ==
  IF ls = <<>> THEN <<>>
  ELSE LET res == BridgeParser(kind, LineTable[Head(ls)])
       IN  (IF res.err \/ res.data = <<>> THEN <<>> ELSE res.data)
             \o BridgeEvents(kind, Tail(ls))

\* the event sent carries every field of the event parsed, with its value
SameEvent(sent, parsed) ==
  \A k \in DOMAIN parsed : k \in DOMAIN sent /\ sent[k] = parsed[k]

C6_RejectedStartChangesNothing ==
  [][(AlreadyRunning /\ uiMsg' = msgAlreadyRunning /\ uiMsg' # uiMsg) =>
       UNCHANGED <<currentCmd, cancelFunc, stopEnabled, pendingDisable, written, sess>>]_vars

\* C6's case: a start request was refused while a session's process runs
C6_RejectedWhileRunning ==
  /\ uiMsg = msgAlreadyRunning
  /\ currentCmd # 0
  /\ sess[currentCmd].proc = "running"

\* C7 (uploader): on every way out of a session's goroutine (stdout-pipe
\* failure, start failure, end of output, Stop) the teardown runs exactly once:
\* currentCmd and cancelFunc are cleared and onFinish runs once; cmd.Wait is
\* called exactly once if the process was started, only after the read loop has
\* ended, and not at all if the launch failed.
C7_TeardownOnce ==
  \A s \in Sessions :
    LET r == sess[s]
    IN  /\ r.teardowns <= 1 /\ r.finishes <= 1 /\ r.waits <= 1
        /\ r.waits = 1 => (r.launched /\ r.pc \in {"deferClear", "deferFinish", "done"})
        /\ (r.teardowns = 1) = (r.pc \in {"deferFinish", "done"})
        /\ (r.finishes = 1) = (r.pc = "done")
        /\ r.pc \in {"deferFinish", "done"} =>
             /\ currentCmd # s
             /\ cancelFunc # s
             /\ r.waits = IF r.launched THEN 1 ELSE 0

\* C7's case: one goroutine has returned after its process ran and was waited
\* for, another after a failed launch
C7_BothWaysOut ==
  \E s, t \in Sessions :
    /\ sess[s].pc = "done" /\ sess[s].launched /\ sess[s].waits = 1
    /\ sess[t].pc = "done" /\ ~sess[t].launched /\ sess[t].waits = 0

\* C8 (uploader and bridge): once a session is torn down (uploader: the
\* deferred func has cleared currentCmd; bridge: the handler has returned) its
\* process is not running: it was never started, or it has exited and been
\* waited for.
C8_NoProcessOutlivesSession ==
  /\ \A s \in Sessions :
       sess[s].pc \in {"deferFinish", "done"} => sess[s].proc \in {"none", "reaped"}
  /\ \A c \in Conns :
       conn[c].pc = "returned" => conn[c].proc \in {"none", "reaped"}

\* C8's case: a handler has returned after a write failure made it leave the
\* loop while its process had not been cancelled
C8_ReturnedAfterWriteFailure ==
  \E c \in Conns :
    /\ conn[c].pc = "returned"
    /\ conn[c].writeFailed
    /\ conn[c].launched
    /\ conn[c].exit \in {"zero", "nonzero"}

\* the read loop of session s is blocked waiting for the next line
BlockedReading(s) ==
  /\ sess[s].pc = "scan"
  /\ sess[s].pending = 0
  /\ sess[s].proc = "running"

\* C9 (uploader): Stop pressed while a session's read loop is blocked waiting
\* for the next line cancels that session, so that its process is killed, the
\* loop ends without reading a further line and the wait is reported as
\* 'Process stopped by user.'.
C9_StopCancelsBlockedSession ==
  [][Stop => \A s \in Sessions : BlockedReading(s) => sess'[s].cancelled]_vars

\* C10 (uploader): the outcome logged after cmd.Wait matches the cause of the
\* exit; 'Process finished with error' is logged iff the process exited with a
\* non-zero status that cancellation did not cause, also when Stop is pressed
\* after the process has exited abnormally and before the teardown.
C10_ErrorIffAbnormalExit ==
  \A s \in Sessions :
    (sess[s].pc = "deferClear" /\ sess[s].waits = 1) =>
      ((sess[s].msg = msgError) = (sess[s].exit = "nonzero"))

\* C11 (uploader and bridge): cancelling is idempotent and races harmlessly
\* with the process's own exit: however often and whenever cancel is called
\* (Stop presses; the reader's cancel and the deferred cancel on the bridge), a
\* cancelled context stays cancelled, a further cancel changes nothing, only a
\* running process is killed (so at most once, and not after it has exited by
\* itself), and the session is torn down once.
C11_CancelIdempotent ==
  [][/\ \A s \in Sessions :
          /\ (sess[s].cancelled /\ sess'[s].pc # "done") => sess'[s].cancelled
          /\ (sess'[s].exit = "killed" /\ sess[s].exit # "killed") =>
               (sess[s].proc = "running" /\ sess[s].cancelled)
          /\ sess[s].proc \in {"exited", "reaped"} =>
               /\ sess'[s].proc \in {"exited", "reaped"}
               /\ sess'[s].exit = sess[s].exit \/ sess'[s].pc = "done"
          /\ sess'[s].teardowns <= 1 /\ sess'[s].waits <= 1
     /\ Stop => \A s \in Sessions : sess[s].cancelled => sess'[s] = sess[s]
     /\ \A c \in Conns :
          /\ conn[c].cancelled => conn'[c].cancelled
          /\ (conn'[c].exit = "killed" /\ conn[c].exit # "killed") =>
               (conn[c].proc = "running" /\ conn[c].cancelled)
          /\ conn[c].proc \in {"exited", "reaped"} =>
               /\ conn'[c].proc \in {"exited", "reaped"}
               /\ conn'[c].exit = conn[c].exit
          /\ conn[c].pc = "returned" => conn'[c].pc = "returned"
          /\ conn'[c].waits <= 1]_vars

\* C11's case: Stop was pressed for a session whose process exited by itself,
\* and the session has been torn down
C11_CancelRacedWithExit ==
  \E s \in Sessions :
    /\ sess[s].cancelled
    /\ sess[s].exit = "zero"
    /\ sess[s].pc = "deferFinish"
    /\ sess[s].teardowns = 1
    /\ uiMsg = "Stopping process..."

\* a session of the uploader whose launch failed, before its record is released
LaunchFailed(s) == sess[s].pc \in {"deferClear", "deferFinish"} /\ ~sess[s].launched

\* a session of the bridge whose launch failed: upgraded, returning, no process
BLaunchFailed(c) ==
  conn[c].pc \in {"return", "returned"} /\ conn[c].reader # "none" /\ ~conn[c].launched

\* C12 (uploader and bridge): when the stdout pipe cannot be attached or the
\* process cannot be spawned, the session never runs: it has surfaced one error
\* message (a log line in the GUI, an error message on the WebSocket) and no
\* other, has no process, has read no line and delivered no event, and its
\* teardown releases the channel (the GUI's marker and cancel handle are nil
\* after the deferred clearing; the bridge's connection is closed on return).
C12_LaunchFailureSurfacedOnce ==
  [][/\ \A s \in Sessions :
          /\ LaunchFailed(s) =>
               /\ sess[s].msg \in {"Error creating stdout pipe", "Error starting process"}
               /\ sess[s].proc = "none" /\ sess[s].exit = "none" /\ sess[s].waits = 0
               /\ sess[s].lines = <<>> /\ sess[s].posts = <<>> /\ sess[s].inflight = <<>>
               /\ sess'[s].msg = sess[s].msg \/ sess'[s].pc = "done"
               /\ sess'[s].pc \in {"deferClear", "deferFinish", "done"}
               /\ ~sess'[s].launched /\ sess'[s].proc = "none"
          /\ (LaunchFailed(s) /\ sess[s].pc = "deferClear" /\ sess'[s].pc = "deferFinish") =>
               (currentCmd' = 0 /\ cancelFunc' = 0 /\ ~AlreadyRunning')
     /\ \A c \in Conns :
          BLaunchFailed(c) =>
            /\ conn[c].errorsSent = 1 /\ conn'[c].errorsSent = 1
            /\ conn[c].proc = "none" /\ conn'[c].proc = "none" /\ ~conn'[c].launched
            /\ conn[c].lines = <<>> /\ conn[c].posts = <<>> /\ conn[c].inflight = <<>>
            /\ conn'[c].lines = <<>> /\ conn'[c].posts = <<>>
            /\ conn'[c].pc \in {"return", "returned"}
            /\ conn[c].pc = "returned" => conn[c].closed]_vars

\* C12's case: a launch has failed and been torn down, nothing is marked as
\* running, and the next start has been accepted
C12_StartAfterFailedLaunch ==
  /\ sess[1].pc = "done" /\ ~sess[1].launched
  /\ sess[2].pc = "created"
  /\ currentCmd = 0 /\ cancelFunc = 0

\* the process of the session has exited by itself and nothing has cancelled
\* the session
ExitedUncancelled(r) ==
  r.proc = "exited" /\ r.exit \in {"zero", "nonzero"} /\ ~r.cancelled

Phase(r) ==
  IF ~r.launched THEN 0
  ELSE IF r.waits > 0 THEN 3
  ELSE IF r.pc = "wait" THEN 2
  ELSE 1

CarriesNames(e, r) ==
  /\ "patient_name" \in DOMAIN e /\ "clinic_name" \in DOMAIN e
  /\ e["patient_name"] = r.patientName /\ e["patient_name"] # ""
  /\ e["clinic_name"] = r.clinicName /\ e["clinic_name"] # ""

\* C15 (uploader): every event handed to sendData carries patient_name and
\* clinic_name equal to what the entries held when the session was started:
\* the names of a session are fixed by its start and stay the same until it is
\* over, whatever the entries hold later and whatever other session is
\* started; no event is posted without them.
C15_EventsCarryEnteredNames ==
  [][\A s \in Sessions :
       /\ \A i \in 1..Len(sess'[s].posts) : CarriesNames(sess'[s].posts[i], sess'[s])
       /\ \A i \in 1..Len(sess'[s].inflight) : CarriesNames(sess'[s].inflight[i], sess'[s])
       /\ (sess[s].pc = "idle" /\ sess'[s].pc # "idle") =>
            <<sess'[s].clinicName, sess'[s].patientName>> \in EntryTexts
       /\ (sess[s].pc \notin {"idle", "done"} /\ sess'[s].pc # "done") =>
            /\ sess'[s].patientName = sess[s].patientName
            /\ sess'[s].clinicName = sess[s].clinicName]_vars

\* C15's case: the entries were changed between two starts, and each of the
\* two sessions has posted an event
C15_TwoSessionsTwoPatients ==
  /\ sess[1].patientName = "Alice" /\ sess[2].patientName = "Bob"
  /\ Len(sess[1].posts) = 1 /\ Len(sess[2].posts) = 1
  /\ sess[1].posts[1]["patient_name"] = "Alice"
  /\ sess[2].posts[1]["patient_name"] = "Bob"

\* the messages startProcess logs for an empty entry
msgEmptyEntry ==
  {"Error: Please enter a Web Server URL", "Error: Please enter a Clinic Name",
   "Error: Please enter a Patient Name"}

\* C16 (uploader): a start requested with an empty URL, clinic name or patient
\* name starts no session: no goroutine and no process come to be, the running
\* marker, the cancel handle and the Stop button stay as they are, and an error
\* message is logged; so no session ever has an empty URL, clinic or patient.
C16_EmptyEntryStartsNothing ==
  [][/\ (\E url \in UrlTexts, clinic \in ClinicTexts, patient \in PatientTexts :
           StartInvalid(url, clinic, patient)) =>
          /\ sess' = sess
          /\ currentCmd' = currentCmd /\ cancelFunc' = cancelFunc
          /\ stopEnabled' = stopEnabled /\ pendingDisable' = pendingDisable
          /\ uiMsg' \in msgEmptyEntry
     /\ \A s \in Sessions :
          sess'[s].pc \notin {"idle", "done"} =>
            (sess'[s].targetURL # "" /\ sess'[s].clinicName # "" /\ sess'[s].patientName # "")
     /\ (uiMsg' \in msgEmptyEntry /\ uiMsg' # uiMsg) =>
          (sess' = sess /\ currentCmd' = currentCmd /\ cancelFunc' = cancelFunc
           /\ stopEnabled' = stopEnabled)]_vars

\* C16's case: after a session has come and gone a start with an empty patient
\* name was refused: nothing is running and the Stop button is disabled
C16_RefusedForEmptyPatient ==
  /\ uiMsg = "Error: Please enter a Patient Name"
  /\ sess[1].pc = "done" /\ sess[2].pc = "idle"
  /\ currentCmd = 0 /\ cancelFunc = 0 /\ ~stopEnabled

\* in this step record r became record q by reading a line the parser in
\* table parsed returns an error for
ReadsErrorLine(r, q, parsed) ==
  /\ Len(q.lines) = Len(r.lines) + 1
  /\ parsed[q.kind][q.lines[Len(q.lines)]].err

\* C17 (uploader and bridge): a line the parser returns an error for (a
\* temperature that is no number) goes no further than the parser: the step
\* that reads it delivers nothing, logs nothing, leaves the context, the
\* process and the connection as they are, and ends at the head of the loop,
\* where the next line is read and handled as any other.
C17_ParseErrorSkipsLine ==
  [][/\ \A s \in Sessions :
          ReadsErrorLine(sess[s], sess'[s], UploaderParsed) =>
            /\ sess'[s] = [sess[s] EXCEPT !.pending = @ - 1, !.lines = sess'[s].lines]
            /\ sess'[s].pc = "scan" /\ sess'[s].inflight = <<>>
            /\ currentCmd' = currentCmd /\ cancelFunc' = cancelFunc
     /\ \A c \in Conns :
          ReadsErrorLine(conn[c], conn'[c], BridgeParsed) =>
            /\ conn'[c] = [conn[c] EXCEPT !.pending = @ - 1, !.lines = conn'[c].lines]
            /\ conn'[c].pc = "scan" /\ conn'[c].inflight = <<>>]_vars

\* C17's case: on a connection the line DATA:TEMP=abc was read, then the line
\* DATA:TEMP=36.5, whose event was written; nothing has cancelled the session
C17_GoodLineAfterErrorLine ==
  /\ conn[1].kind = "Temperature"
  /\ conn[1].lines = <<5, 4>>
  /\ Len(conn[1].posts) = 1
  /\ ~conn[1].cancelled /\ ~conn[1].closed /\ ~conn[1].writeFailed

\* C18 (bridge): the sessions of different connections share no state: a step
\* changes the session of one connection at most; a connection's context is
\* cancelled only by its own reader goroutine or its own handler's return, and
\* its process is killed only when its own context is cancelled; so a
\* disconnect, a failed write or the exit of the process on one connection
\* leaves every other connection's process running, also on the same endpoint.
C18_ConnectionsIndependent ==
  [][\A c \in Conns :
       /\ conn'[c] # conn[c] => \A d \in Conns \ {c} : conn'[d] = conn[d]
       /\ (conn'[c].cancelled /\ ~conn[c].cancelled) =>
            \/ conn[c].reader = "reading" /\ conn'[c].reader = "stopped"
            \/ conn[c].pc = "return" /\ conn'[c].pc = "returned"
       /\ (conn'[c].exit = "killed" /\ conn[c].exit # "killed") => conn[c].cancelled
       /\ (conn'[c].proc # "running" /\ conn[c].proc = "running") =>
            \A d \in Conns \ {c} : conn'[d].proc = conn[d].proc]_vars

\* C18's case: two connections to the same endpoint; the client of the first
\* went away, its process was killed and its handler has returned; the second
\* has written an event, is not cancelled and its process is running
C18_OtherConnectionLivesOn ==
  /\ conn[1].kind = conn[2].kind
  /\ ~conn[1].open /\ conn[1].exit = "killed" /\ conn[1].pc = "returned"
  /\ conn[2].proc = "running" /\ ~conn[2].cancelled /\ conn[2].open
  /\ Len(conn[2].posts) >= 1

\* the decimal numeral of a natural number
RECURSIVE NatText(_)
NatText(n) ==
  IF n < 10 THEN <<CHOOSE d \in Digits : DigitVal(d) = n>>
  ELSE NatText(n \div 10) \o <<CHOOSE d \in Digits : DigitVal(d) = n % 10>>

\* the decimal numeral of an int
IntText(n) ==
  IF n >= 0 THEN NatText(n)
  ELSE IF n = -IntMax - 1 THEN <<"-">> \o MinIntDigits
  ELSE <<"-">> \o NatText(-n)

\* C19 (both parsers of heart-rate lines): for a line DATA:PR=<p>,SPO2=<s>
\* with p and s the numerals of integers, parseHeartRateLine returns no error
\* and exactly the event {type: "data", pr: p, spo2: s}.
C19_HeartRateExact ==
  (parseArg.parser = "HeartRate" /\ parseArg.made = "values" /\ parseRet.by # "none") =>
    /\ ~parseRet.res.err
    /\ Len(parseRet.res.data) = 1
    /\ DOMAIN parseRet.res.data[1] = {"type", "pr", "spo2"}
    /\ parseRet.res.data[1].type = "data"
    /\ IntText(parseRet.res.data[1].pr) = parseArg.vals[1]
    /\ IntText(parseRet.res.data[1].spo2) = parseArg.vals[2]

\* C20 (uploader's parseNIBPLine): an NIBP result line gives the same sys,
\* dia, map and pr whether its parts are written KEY=VALUE (SYS=110) or
\* concatenated (SYS110), or some one way and some the other: the event is the
\* one of the line written all in KEY=VALUE form and the one of the line
\* written all concatenated, and its numbers are those of the value texts.
C20_NIBPFormsAgree ==
  (parseArg.parser = "NIBP" /\ parseArg.made = "values" /\ parseRet.by = "uploader") =>
    LET allEq  == parseNIBPLine(NIBPLine(parseArg.vals, <<TRUE, TRUE, TRUE, TRUE>>))
        noneEq == parseNIBPLine(NIBPLine(parseArg.vals, <<FALSE, FALSE, FALSE, FALSE>>))
        e      == parseRet.res.data[1]
    IN  /\ ~parseRet.res.err /\ Len(parseRet.res.data) = 1
        /\ parseRet.res = allEq
        /\ parseRet.res = noneEq
        /\ e.type = "result"
        /\ e.sys = AtoiVal(parseArg.vals[1]) /\ e.dia = AtoiVal(parseArg.vals[2])
        /\ e.map = AtoiVal(parseArg.vals[3]) /\ e.pr = AtoiVal(parseArg.vals[4])

\* C20's case: the line DATA:NIBP_RESULT:SYS=110,DIA70,MAP85,PR=72, with both
\* forms in it, was parsed to sys 110, dia 70, map 85, pr 72
C20_MixedLineParsed ==
  /\ parseArg.parser = "NIBP" /\ parseArg.made = "values"
  /\ parseArg.eq = <<TRUE, FALSE, FALSE, TRUE>>
  /\ parseArg.vals = <<<<"1", "1", "0">>, <<"7", "0">>, <<"8", "5">>, <<"7", "2">>>>
  /\ parseRet.by = "uploader"
  /\ parseRet.res.data[1].sys = 110 /\ parseRet.res.data[1].dia = 70
  /\ parseRet.res.data[1].map = 85 /\ parseRet.res.data[1].pr = 72

(***************************************************************************)
(* The claims C21 to C30.                                                   *)
(***************************************************************************)
\* C21 (uploader's parseNIBPLine): the result depends only on the normalized
\* line: a line that differs from another in the case of letters, or in a
\* space or carriage return put in or taken out anywhere, is parsed to the
\* same event, or to the same absence of an event.
C21_NIBPNormalizationInvariant ==
  (parseArg.parser = "NIBP" /\ parseArg.made = "variant" /\ parseRet.by = "uploader") =>
    parseRet.res = parseNIBPLine(parseArg.vals[1])

\* C21's case: the line "DATA: CUFF_PRESSURE = 120\r" written in lower case
\* was parsed to the cuff update of 120
C21_LowerCaseCuffParsed ==
  /\ parseArg.parser = "NIBP" /\ parseArg.made = "variant"
  /\ parseArg.vals[1] = <<"D", "A", "T", "A", ":", " ", "C", "U", "F", "F", "_", "P", "R", "E", "S", "S", "U", "R", "E", " ", "=", " ", "1", "2", "0", "\r">>
  /\ parseArg.line = ToLower(parseArg.vals[1])
  /\ parseRet.by = "uploader"
  /\ parseRet.res = Event([type |-> "cuff_update", cuff_pressure |-> 120])

\* C22 (both parsers of NIBP lines): the event of an NIBP result line has irr
\* true exactly when the line has an IRR part whose value, with spaces and
\* carriage returns removed and in upper case, is TRUE; irr is false for every
\* other value and for a line without an IRR part.
C22_IrrIffNormalizedTrue ==
  (parseArg.parser = "NIBP" /\ parseArg.made = "irr" /\ parseRet.by # "none") =>
    /\ ~parseRet.res.err /\ Len(parseRet.res.data) = 1
    /\ parseRet.res.data[1].type = "result"
    /\ parseRet.res.data[1].irr = (parseArg.eq[1] /\ NIBPNormalize(parseArg.vals[1]) = sTRUE)

\* C23 (both parsers of NIBP lines): a line whose normalized form starts with
\* STATUS:NIBP_END gives the event {type: "status", msg: "NIBP_END"};
\* STATUS:NIBP_ERROR=<n> gives {type: "error", code: n};
\* DATA:CUFF_PRESSURE=<n> gives {type: "cuff_update", cuff_pressure: n}.
C23_NIBPStatusLines ==
  (parseArg.parser = "NIBP" /\ parseRet.by # "none") =>
    /\ parseArg.made = "end" =>
         parseRet.res = Event([type |-> "status", msg |-> <<"N", "I", "B", "P", "_", "E", "N", "D">>])
    /\ parseArg.made = "error" =>
         /\ ~parseRet.res.err /\ Len(parseRet.res.data) = 1
         /\ DOMAIN parseRet.res.data[1] = {"type", "code"}
         /\ parseRet.res.data[1].type = "error"
         /\ IntText(parseRet.res.data[1].code) = parseArg.vals[1]
    /\ parseArg.made = "cuff" =>
         /\ ~parseRet.res.err /\ Len(parseRet.res.data) = 1
         /\ DOMAIN parseRet.res.data[1] = {"type", "cuff_pressure"}
         /\ parseRet.res.data[1].type = "cuff_update"
         /\ IntText(parseRet.res.data[1].cuff_pressure) = parseArg.vals[1]

\* the number a plain decimal numeral v (sign, digits, point, digits) stands
\* for, as the event carries it
DecimalNumber(v) ==
  LET sign == Head(v) \in {"+", "-"}
      body == IF sign THEN Tail(v) ELSE v
      dot  == Index(body, ".")
  IN  [class |-> "finite", neg |-> Head(v) = "-", base |-> 10,
       int |-> DropFrontZeros(IF dot = 0 THEN body ELSE SubSeq(body, 1, dot - 1)),
       frac |-> DropEndZeros(IF dot = 0 THEN <<>> ELSE SubSeq(body, dot + 1, Len(body))),
       exp |-> 0]

\* C24 (parseTemperatureLine): DATA:TEMP=<v> gives the event
\* {type: "data", temp: v} when v is a decimal number, and a parse failure (an
\* error, no event, no default value) when v is not a number.
C24_TemperatureNumberOrFailure ==
  (parseArg.parser = "Temperature" /\ parseRet.by # "none") =>
    /\ parseArg.made = "number" =>
         parseRet.res = Event([type |-> "data", temp |-> DecimalNumber(parseArg.vals[1])])
    /\ parseArg.made = "nonnumber" => parseRet.res = ParseError

\* C25 (the four parsers of both programs): a line of no shape the parser
\* knows, such as the empty line or NOISE, gives no event and no error.
C25_UnrecognizedLineIgnored ==
  (parseArg.made = "noise" /\ parseRet.by # "none") => parseRet.res = NoEvent

\* C25's case: the glucose parser was handed NOISE and returned neither an
\* event nor an error
C25_GlucoseIgnoredNoise ==
  /\ parseArg.parser = "Glucose" /\ parseArg.made = "noise"
  /\ parseArg.line = <<"N", "O", "I", "S", "E">>
  /\ parseRet.by = "uploader"
  /\ parseRet.res.data = <<>> /\ ~parseRet.res.err

\* the event e, apart from the names in extra, has a type tag and exactly the
\* fields of the wire shape of its variant
WireShape(e, extra) ==
  LET fields == (DOMAIN e) \ ({"type"} \cup extra)
  IN  /\ "type" \in DOMAIN e
      /\ e.type \in {"data", "status", "cuff_update", "result", "error"}
      /\ e.type = "data" => fields \in {{"pr", "spo2"}, {"glu"}, {"temp"}}
      /\ e.type = "status" => fields = {"msg"}
      /\ e.type = "cuff_update" => fields = {"cuff_pressure"}
      /\ e.type = "result" => fields = {"sys", "dia", "map", "pr", "irr"}
      /\ e.type = "error" => fields = {"code"}

\* C26 (all parsers, both sinks): every event a parser returns, and every
\* event handed to the HTTP sink or written to a WebSocket, has a type tag
\* among data, status, cuff_update, result, error, and besides it exactly the
\* fields of its wire shape (the HTTP sink's events have the two injected
\* names in addition).
C26_EventsHaveWireShape ==
  /\ \A i \in 1..Len(parseRet.res.data) : WireShape(parseRet.res.data[i], {})
  /\ \A s \in Sessions :
       /\ \A i \in 1..Len(sess[s].posts) :
            WireShape(sess[s].posts[i], {"patient_name", "clinic_name"})
       /\ \A i \in 1..Len(sess[s].inflight) :
            WireShape(sess[s].inflight[i], {"patient_name", "clinic_name"})
  /\ \A c \in Conns :
       /\ \A i \in 1..Len(conn[c].posts) : WireShape(conn[c].posts[i], {})
       /\ \A i \in 1..Len(conn[c].inflight) : WireShape(conn[c].inflight[i], {})

\* C26's case: the bridge's NIBP parser returned a result event, with the
\* fields sys, dia, map, pr and irr
C26_ResultEventReturned ==
  /\ parseArg.parser = "NIBP" /\ parseRet.by = "bridge"
  /\ Len(parseRet.res.data) = 1
  /\ parseRet.res.data[1].type = "result"
  /\ DOMAIN parseRet.res.data[1] = {"type", "sys", "dia", "map", "pr", "irr"}

\* C27 (every integer field of every parser: pr, spo2, cuff_pressure, sys,
\* dia, map, pr, code, glu): a value that does not parse as an integer (no
\* numeral, empty, or beyond the range of int) gives the field 0; no error is
\* returned and no other value is used.
C27_BadIntegerYieldsZero ==
  (parseArg.made = "badint" /\ parseRet.by # "none") =>
    /\ ~parseRet.res.err /\ Len(parseRet.res.data) = 1
    /\ parseRet.res.data[1][parseArg.vals[2][1]] = 0

\* the key of a KEY=VALUE pair, and its value
PairKey(p) == SubSeq(p, 1, Index(p, "=") - 1)
PairValue(p) == SubSeq(p, Index(p, "=") + 1, Len(p))

\* the number a heart-rate line with the pairs ps has for the key: that of
\* the last pair with exactly this key, 0 when there is none
LastValue(ps, key) ==
  LET at == {i \in 1..Len(ps) : PairKey(ps[i]) = key}
  IN  IF at = {} THEN 0
      ELSE AtoiVal(PairValue(ps[CHOOSE i \in at : \A j \in at : j <= i]))

\* the pairs in the opposite order
Reverse(ps) == [i \in 1..Len(ps) |-> ps[Len(ps) + 1 - i]]

\* C28 (parseHeartRateLine and parseKV): the event of a heart-rate DATA line
\* does not depend on the order of its KEY=VALUE pairs; keys are
\* case-sensitive (pr= is not PR=); of several pairs with the same key the
\* last one wins.
C28_PairsOrderCaseDuplicates ==
  (parseArg.made = "pairs" /\ parseRet.by # "none") =>
    LET ps   == parseArg.vals
        keys == {PairKey(ps[i]) : i \in 1..Len(ps)}
    IN  /\ parseRet.res = Event([type |-> "data",
                                  pr |-> LastValue(ps, sPR),
                                  spo2 |-> LastValue(ps, sSPO2)])
        /\ Cardinality(keys) = Len(ps) =>
             parseRet.res = parseHeartRateLine(sDATA \o JoinPairs(Reverse(ps)))

\* C28's case: the line DATA:pr=60,PR=80,PR=81 was parsed to pr 81, spo2 0
C28_LastDuplicateWon ==
  /\ parseArg.made = "pairs" /\ parseRet.by = "uploader"
  /\ parseArg.vals = <<<<"p", "r", "=", "6", "0">>, <<"P", "R", "=", "8", "0">>, <<"P", "R", "=", "8", "1">>>>
  /\ parseRet.res = Event([type |-> "data", pr |-> 81, spo2 |-> 0])

\* C29 (sendData): a delivery error is reported exactly when the POST fails
\* or the status of the response is not 2xx: every 2xx response, and no other
\* outcome, counts as delivered.
C29_DeliveredIff2xx ==
  (parseArg.parser = "sendData" /\ parseRet.by # "none") =>
    (~parseRet.res.err <=>
       (parseArg.made = "response" /\ parseArg.status >= 200 /\ parseArg.status <= 299))

\* the session's start was accepted and its teardown has not begun
BeforeTeardown(s) == sess[s].pc \in {"created", "ctxSet", "cmdSet", "scan", "post", "wait"}

\* C30 (uploader): from the moment a start is accepted until the teardown of
\* that session, the shared cancelFunc is the cancel function of that
\* session's context, so that a Stop press in that interval cancels it and
\* its process is terminated.
C30_HandleRefersToSession ==
  \A s \in Sessions : BeforeTeardown(s) => cancelFunc = s


(***************************************************************************)
(* The claims C31 to C38.                                                   *)
(***************************************************************************)
\* C31 (the uploader's and the bridge's parsers, for each of the four device
\* kinds): the two parsers of a kind give every line the same result: the same
\* event, no event for both, or an error for both.
C31_ParsersAgree ==
  /\ parseRet.by = "uploader" => parseRet.res = BridgeParser(parseArg.parser, parseArg.line)
  /\ parseRet.by = "bridge" => parseRet.res = UploaderParser(parseArg.parser, parseArg.line)


\* C32 (the heart-rate parser of both programs): a line with the DATA: prefix
\* that lacks PR, SPO2 or both, such as DATA: alone or DATA:GLU=5, gives no
\* heart-rate reading: no event of type data comes back for it.
C32_ReadingNeedsBothKeys ==
  (parseArg.parser = "HeartRate" /\ parseArg.made = "partial" /\ parseRet.by # "none") =>
    \A i \in 1..Len(parseRet.res.data) : parseRet.res.data[i].type # "data"


\* the file spec'd for the event d of a device: by its type tag and its fields
FileOfEvent(d) ==
  IF d[KeyText.type].v \in {"cuff_update", "result"} THEN "bp.json"
  ELSE IF d[KeyText.type].v \in {"status", "error"} THEN "misc.json"
  ELSE IF KeyText.glu \in DOMAIN d THEN "glucose.json"
  ELSE IF KeyText.temp \in DOMAIN d THEN "temperature.json"
  ELSE "heart_rate.json"

\* C33 (web server, handleIngest and saveRecord): every stored event lies in
\* the file of its device kind: heart-rate readings in heart_rate.json, NIBP
\* cuff updates and NIBP results in bp.json, glucose readings in glucose.json,
\* temperature readings in temperature.json, status and error events in
\* misc.json.
C33_EventsInFileOfKind ==
  \A p \in DOMAIN files : \A i \in 1..Len(files[p]) :
    KeyText.type \in DOMAIN files[p][i].data => p[3] = FileOfEvent(files[p][i].data)


\* C34 (web server, handleFeedWS): one feed connection at most is registered;
\* a handler that registers its connection replaces the registered one and
\* closes it; a handler whose read loop has ended clears the registration when
\* it refers to its own connection and leaves it alone when it refers to
\* another, so that a newer connection stays registered.
C34_OneFeedRegistered ==
  [][\A c \in FeedConns :
       /\ (feed[c].pc = "upgraded" /\ feed'[c].pc = "reading") =>
            /\ feedConn' = c
            /\ feedConn # 0 => feed'[feedConn].closed
       /\ (feed[c].pc = "ended" /\ feed'[c].pc = "done") =>
            feedConn' = (IF feedConn = c THEN 0 ELSE feedConn)]_vars

\* C34's case: the second connection replaced the first, which was closed; the
\* first handler's read loop ended and its cleanup ran; the second is still
\* registered
C34_NewerStaysRegistered ==
  /\ feed[1].pc = "done" /\ feed[1].closed
  /\ feed[2].pc = "reading" /\ feedConn = 2

\* the last response of the server
LastAnswer == answers'[Len(answers')]

\* C35 (web server, handleFeedStart, handleFeedStop, sendControl): a start or
\* stop request is answered with 200 or 503; with 200 only when a connection
\* is registered, the command was written to it and it stays registered; with
\* 503 and nothing written when none is registered; and a request whose write
\* failed is answered with 503, nothing is written and the registration is
\* cleared, so that the requests after it meet no registration until a
\* handler registers a new connection.
C35_ControlAnswers ==
  [][/\ (Len(answers') = Len(answers) + 1 /\ LastAnswer.req \in ControlCommands) =>
          /\ LastAnswer.status \in {200, 503}
          /\ LastAnswer.status = 200 =>
               /\ feedConn # 0 /\ feedConn' = feedConn
               /\ feed'[feedConn].cmds = Append(feed[feedConn].cmds, LastAnswer.req)
               /\ \A c \in FeedConns \ {feedConn} : feed'[c] = feed[c]
          /\ LastAnswer.status = 503 => feedConn' = 0 /\ feed' = feed
          /\ feedConn = 0 => LastAnswer.status = 503
     /\ (feedConn = 0 /\ feedConn' # 0) =>
          feed[feedConn'].pc = "upgraded" /\ feed'[feedConn'].pc = "reading"]_vars

\* C35's case: a start was written to the registered connection and answered
\* with 200; the write of the stop that followed failed: it was answered with
\* 503 and the registration is cleared, while the handler still reads
C35_ClearedAfterFailedWrite ==
  /\ answers = <<[req |-> "start", status |-> 200], [req |-> "stop", status |-> 503]>>
  /\ feedConn = 0
  /\ \E c \in FeedConns : feed[c].pc = "reading" /\ ~feed[c].gone /\ feed[c].cmds = <<"start">>


\* C36 (web server, handleStreamWS and broadcastFrame): in every state is no
\* stream key mapped to an empty set of subscribers; every registered
\* subscriber is registered under the key it subscribed with and under no
\* other; and a subscriber whose handler has finished after the end of its
\* read loop, or whose connection was closed after a failed frame write, is
\* not registered.
C36_BrokerInvariant ==
  /\ \A k \in DOMAIN streams : streams[k] # {}
  /\ \A k \in DOMAIN streams : \A u \in streams[k] : sub[u].key = k
  /\ \A u \in Subs : (sub[u].pc = "done" \/ sub[u].closed) =>
       \A k \in DOMAIN streams : u \notin streams[k]

\* C36's case: two subscribers registered under one key; the write of the
\* first frame to subscriber 1 failed, and subscriber 2, which got the frame,
\* has left since: the key is gone from the map
C36_KeyGoneWithLastSubscriber ==
  /\ sub[1].key = sub[2].key
  /\ sub[1].closed /\ sub[1].got = <<>> /\ sub[1].pc = "reading"
  /\ sub[2].got = <<1>> /\ sub[2].pc = "done"
  /\ streams = <<>>

\* the key of the last metadata the feed connection c carried: of its clinic
\* and patient, and of Unknown and Unknown before any metadata
MetaKey(c) ==
  IF feed[c].meta = <<>> THEN streamKey(<<"U", "n", "k", "n", "o", "w", "n">>, <<"U", "n", "k", "n", "o", "w", "n">>)
  ELSE streamKey(feed[c].meta[1].clinic, feed[c].meta[1].patient)

\* C37 (web server, handleFeedWS, streamKey, broadcastFrame): a binary frame
\* read from a feed connection is written to subscribers registered under the
\* key of the last metadata read from that connection (Unknown|Unknown before
\* any), to each of them unless its write fails, and to no subscriber of
\* another key; without subscribers under that key nobody gets the frame.
C37_FrameGoesToMetadataKey ==
  [][Len(relayed') = Len(relayed) + 1 =>
       \A u \in Subs :
         sub'[u].got # sub[u].got =>
           u \in SubscribersOf(streams, MetaKey(relayed'[Len(relayed')].feed))]_vars


\* C38 (uploader, connectWS and disconnectWS): the cleanup of the reader
\* goroutine of a connection closes that connection only and cancels its
\* context only; it clears wsConn and wsCancel when they refer to its own
\* connection and leaves them alone when a later Connect has set them.
C38_CleanupTouchesOwnConnection ==
  [][\A w \in Sockets :
       (wsock[w].pc = "cleanup" /\ wsock'[w].pc = "done") =>
         /\ \A v \in Sockets \ {w} :
              wsock'[v].closed = wsock[v].closed /\ wsock'[v].cancelled = wsock[v].cancelled
         /\ wsConn' = (IF wsConn = w THEN 0 ELSE wsConn)
         /\ wsCancel' = (IF wsCancel = w THEN 0 ELSE wsCancel)]_vars

====
